---- MODULE Spec2Model ----
(***************************************************************************)
(* State-machine model of the email-identity deduplication pipeline of     *)
(* dedup_network.py: build_alias_map (Layers 1..7 and group collapse),     *)
(* merge_nodes, merge_edges and the run_dedup driver.                      *)
(*                                                                         *)
(* Strings are sequences of one-character strings, so that every string    *)
(* function of the source is computed character by character.  Python      *)
(* sets and dicts keyed by strings have no specified iteration order; an   *)
(* iteration whose result depends on the order is a choice over orders.    *)
(***************************************************************************)
EXTENDS Integers, Sequences, FiniteSets, TLC

(***************************************************************************)
(* Characters and Python's str primitives                                  *)
(***************************************************************************)

\* The characters of the model in code-point order (str comparison).
Chars ==
  << " ", "-", ".", "0", "1", "2", "3", "4", "5", "6", "7", "8", "9", ":",
     ";", "<", ">", "@",
     "A", "B", "C", "D", "E", "F", "G", "H", "I", "J", "K", "L", "M", "N",
     "O", "P", "Q", "R", "S", "T", "U", "V", "W", "X", "Y", "Z", "_",
     "a", "b", "c", "d", "e", "f", "g", "h", "i", "j", "k", "l", "m", "n",
     "o", "p", "q", "r", "s", "t", "u", "v", "w", "x", "y", "z" >>

CharSet == {Chars[i] : i \in 1..Len(Chars)}

Ord == [c \in CharSet |-> CHOOSE i \in 1..Len(Chars) : Chars[i] = c]

Digits == {"0", "1", "2", "3", "4", "5", "6", "7", "8", "9"}

LowerLetters ==
  {"a", "b", "c", "d", "e", "f", "g", "h", "i", "j", "k", "l", "m", "n",
   "o", "p", "q", "r", "s", "t", "u", "v", "w", "x", "y", "z"}

UpperLetters ==
  {"A", "B", "C", "D", "E", "F", "G", "H", "I", "J", "K", "L", "M", "N",
   "O", "P", "Q", "R", "S", "T", "U", "V", "W", "X", "Y", "Z"}

\* str.lower / str.upper on one character: the cased letters are 27 apart
\* in Chars ("_" sits between "Z" and "a").
LowerChar(c) == IF c \in UpperLetters THEN Chars[Ord[c] + 27] ELSE c

UpperChar(c) == IF c \in LowerLetters THEN Chars[Ord[c] - 27] ELSE c

Lower(s) == [i \in 1..Len(s) |-> LowerChar(s[i])]

Upper(s) == [i \in 1..Len(s) |-> UpperChar(s[i])]

Min2(a, b) == IF a <= b THEN a ELSE b

Max2(a, b) == IF a >= b THEN a ELSE b

\* s[i:] and s[:n] with Python's clamping.
Drop(s, n) == SubSeq(s, n + 1, Len(s))

Take(s, n) == SubSeq(s, 1, Min2(n, Len(s)))

StartsWith(s, p) == Len(p) <= Len(s) /\ SubSeq(s, 1, Len(p)) = p

EndsWith(s, p) ==
  Len(p) <= Len(s) /\ SubSeq(s, Len(s) - Len(p) + 1, Len(s)) = p

\* `sub in s`
Contains(s, sub) ==
  \E i \in 1..(Len(s) - Len(sub) + 1) : SubSeq(s, i, i + Len(sub) - 1) = sub

HasChar(s, c) == \E i \in 1..Len(s) : s[i] = c

\* str.strip(chars), str.lstrip, str.rstrip
RECURSIVE LStrip(_, _)
LStrip(s, cs) ==
  IF s # << >> /\ Head(s) \in cs THEN LStrip(Tail(s), cs) ELSE s

RECURSIVE RStrip(_, _)
RStrip(s, cs) ==
  IF s # << >> /\ s[Len(s)] \in cs
  THEN RStrip(SubSeq(s, 1, Len(s) - 1), cs)
  ELSE s

Strip(s, cs) == RStrip(LStrip(s, cs), cs)

\* str.replace(old, new): leftmost non-overlapping occurrences.
RECURSIVE Replace(_, _, _)
Replace(s, old, new) ==
  IF Len(s) < Len(old) THEN s
  ELSE IF StartsWith(s, old)
       THEN new \o Replace(Drop(s, Len(old)), old, new)
       ELSE <<Head(s)>> \o Replace(Tail(s), old, new)

\* Position of the first `c` in s, 0 when absent (str.find + 1).
RECURSIVE FindChar(_, _, _)
FindChar(s, c, i) ==
  IF i > Len(s) THEN 0 ELSE IF s[i] = c THEN i ELSE FindChar(s, c, i + 1)

At == "@"

HasAt(s) == HasChar(s, At)

\* local, domain = email.split('@', 1)
LocalOf(s) == SubSeq(s, 1, FindChar(s, At, 1) - 1)

DomainOf(s) == Drop(s, FindChar(s, At, 1))

MkEmail(local, domain) == local \o <<At>> \o domain

\* re.split on a character class: the pieces between delimiters, empty
\* pieces included.
RECURSIVE SplitOn(_, _)
SplitOn(s, delims) ==
  IF \A i \in 1..Len(s) : s[i] \notin delims THEN <<s>>
  ELSE LET k == CHOOSE i \in 1..Len(s) :
                  s[i] \in delims /\ \A j \in 1..(i - 1) : s[j] \notin delims
       IN  <<SubSeq(s, 1, k - 1)>> \o SplitOn(Drop(s, k), delims)

\* sep.join(parts)
RECURSIVE Join(_, _)
Join(parts, sep) ==
  IF parts = << >> THEN << >>
  ELSE IF Len(parts) = 1 THEN parts[1]
  ELSE parts[1] \o sep \o Join(Tail(parts), sep)

\* Python's str ordering: lexicographic by code point.
RECURSIVE StrLess(_, _)
StrLess(a, b) ==
  IF b = << >> THEN FALSE
  ELSE IF a = << >> THEN TRUE
  ELSE IF Head(a) = Head(b) THEN StrLess(Tail(a), Tail(b))
  ELSE Ord[Head(a)] < Ord[Head(b)]

StrLeq(a, b) == a = b \/ StrLess(a, b)

\* sorted(list of str)
RECURSIVE InsertSorted(_, _)
InsertSorted(x, sorted) ==
  IF sorted = << >> THEN <<x>>
  ELSE IF StrLeq(x, Head(sorted)) THEN <<x>> \o sorted
  ELSE <<Head(sorted)>> \o InsertSorted(x, Tail(sorted))

RECURSIVE SortStrs(_)
SortStrs(seq) ==
  IF seq = << >> THEN << >> ELSE InsertSorted(Head(seq), SortStrs(Tail(seq)))

\* sorted(set of str)
RECURSIVE SortedOfSet(_)
SortedOfSet(S) ==
  IF S = {} THEN << >>
  ELSE LET m == CHOOSE x \in S : \A y \in S : StrLeq(x, y)
       IN  <<m>> \o SortedOfSet(S \ {m})

SeqToSet(seq) == {seq[i] : i \in 1..Len(seq)}

\* All orders in which a set can be iterated.
Orders(S) ==
  {o \in [1..Cardinality(S) -> S] : \A x \in S : \E i \in DOMAIN o : o[i] = x}

RECURSIVE SumSeq(_)
SumSeq(seq) == IF seq = << >> THEN 0 ELSE Head(seq) + SumSeq(Tail(seq))

(***************************************************************************)
(* Normalization tables                                                    *)
(***************************************************************************)

EPA_ERROR_DOMAINS ==
  {
   <<"-", "e", "p", "a", ".", "g", "o", "v">>,
   <<".", "e", "p", "a", ".", "a", "o", "v">>,
   <<".", "e", "p", "a", ".", "g", "o">>,
   <<".", "e", "p", "a", ".", "g", "o", "v">>,
   <<".", "e", "p", "a", ".", "g", "q", "y">>,
   <<"1", "1", "e", "p", "a", ".", "g", "o", "v">>,
   <<"1", "e", "p", "a", ".", "g", "o", "v">>,
   <<"1", "l", "e", "p", "a", ".", "g", "o", "v">>,
   <<"c", "p", "3", ".", "g", "o", "v">>,
   <<"c", "p", "3", ".", "g", "o", "v", "l">>,
   <<"c", "p", "3", ".", "g", "o", "y">>,
   <<"c", "p", "3", ".", "q", "o", "v">>,
   <<"c", "p", "a", ".", "a", "o", "v">>,
   <<"c", "p", "a", ".", "g", ".", "q", "y">>,
   <<"c", "p", "a", ".", "g", "c", "n">>, <<"c", "p", "a", ".", "g", "g">>,
   <<"c", "p", "a", ".", "g", "g", "y">>, <<"c", "p", "a", ".", "g", "m">>,
   <<"c", "p", "a", ".", "g", "o">>, <<"c", "p", "a", ".", "g", "o", "v">>,
   <<"c", "p", "a", ".", "g", "o", "v", "l">>,
   <<"c", "p", "a", ".", "g", "o", "y">>,
   <<"c", "p", "a", ".", "g", "o", "y", "l">>,
   <<"c", "p", "a", ".", "g", "q", "y">>,
   <<"c", "p", "a", ".", "q", "o", "v">>,
   <<"d", "o", "m", "i", "n", "o", ".", "e", "p", "a", "m", "a", "i", "l", ".", "e", "p", "a", ".", "g", "o", "v">>,
   <<"e", "p", "3", ".", "g", "o", "v">>,
   <<"e", "p", "3", ".", "g", "o", "v", "l">>,
   <<"e", "p", "a", ".", ".", "g", "o", "v">>,
   <<"e", "p", "a", ".", ".", "g", "q", "v">>,
   <<"e", "p", "a", ".", "a", "o", "v">>,
   <<"e", "p", "a", ".", "a", "o", "v", "l">>,
   <<"e", "p", "a", ".", "a", "o", "y">>,
   <<"e", "p", "a", ".", "a", "o", "y", "l">>,
   <<"e", "p", "a", ".", "c", "i", "o", "v">>,
   <<"e", "p", "a", ".", "e", "o", "v">>,
   <<"e", "p", "a", ".", "f", "i", "o", "v">>,
   <<"e", "p", "a", ".", "f", "l", "o", "v">>,
   <<"e", "p", "a", ".", "f", "l", "o", "v", "l">>,
   <<"e", "p", "a", ".", "g", ".", "q", "y">>,
   <<"e", "p", "a", ".", "g", "0", "v">>,
   <<"e", "p", "a", ".", "g", "e", "v">>,
   <<"e", "p", "a", ".", "g", "g", "v">>,
   <<"e", "p", "a", ".", "g", "g", "y">>,
   <<"e", "p", "a", ".", "g", "g", "y", "l">>,
   <<"e", "p", "a", ".", "g", "i", "o", "v">>,
   <<"e", "p", "a", ".", "g", "m">>, <<"e", "p", "a", ".", "g", "o">>,
   <<"e", "p", "a", ".", "g", "o", " ", "v">>,
   <<"e", "p", "a", ".", "g", "o", "t", "o">>,
   <<"e", "p", "a", ".", "g", "o", "v", "1">>,
   <<"e", "p", "a", ".", "g", "o", "v", "c", "m", "a", "i">>,
   <<"e", "p", "a", ".", "g", "o", "v", "e", "m", "a", "i">>,
   <<"e", "p", "a", ".", "g", "o", "v", "e", "r", "n", "a", "i">>,
   <<"e", "p", "a", ".", "g", "o", "v", "j">>,
   <<"e", "p", "a", ".", "g", "o", "v", "l">>,
   <<"e", "p", "a", ".", "g", "o", "v", "t">>,
   <<"e", "p", "a", ".", "g", "o", "w">>,
   <<"e", "p", "a", ".", "g", "o", "y">>,
   <<"e", "p", "a", ".", "g", "o", "y", "l">>,
   <<"e", "p", "a", ".", "g", "q">>, <<"e", "p", "a", ".", "g", "q", "v">>,
   <<"e", "p", "a", ".", "g", "q", "v", "i">>,
   <<"e", "p", "a", ".", "g", "q", "v", "l">>,
   <<"e", "p", "a", ".", "g", "q", "y">>,
   <<"e", "p", "a", ".", "g", "q", "y", "l">>,
   <<"e", "p", "a", ".", "j", "t", "o", "v">>,
   <<"e", "p", "a", ".", "o", "o", "v">>,
   <<"e", "p", "a", ".", "o", "o", "v", "l">>,
   <<"e", "p", "a", ".", "p", ".", "o", "v">>,
   <<"e", "p", "a", ".", "q", "o">>, <<"e", "p", "a", ".", "q", "o", "l">>,
   <<"e", "p", "a", ".", "q", "o", "v">>,
   <<"e", "p", "a", ".", "q", "o", "v", "l">>,
   <<"e", "p", "a", ".", "q", "o", "v", "y">>,
   <<"e", "p", "a", ".", "q", "o", "y">>,
   <<"e", "p", "a", ".", "q", "o", "y", "l">>,
   <<"e", "p", "a", ".", "q", "q", "v">>,
   <<"e", "p", "a", ".", "q", "q", "v", "l">>,
   <<"e", "p", "a", ".", "q", "q", "y">>,
   <<"e", "p", "a", ".", "q", "q", "y", "l">>,
   <<"e", "p", "a", ".", "r", "e", "v">>,
   <<"e", "p", "a", ".", "r", "g", "v">>,
   <<"e", "p", "a", ".", "r", "o", "v">>,
   <<"e", "p", "a", ".", "r", "o", "v", "j">>,
   <<"e", "p", "a", ".", "r", "o", "v", "l">>,
   <<"e", "p", "a", ".", "r", "q", "v">>,
   <<"e", "p", "a", ".", "r", "q", "y">>,
   <<"e", "p", "a", ".", "s", "o", "v">>, <<"e", "p", "a", ".", "u", "o">>,
   <<"e", "p", "a", "m", "a", ".", "i", "l">>,
   <<"e", "p", "a", "m", "a", "i", "l", ".", "e", "p", "a", ".", "g", "o", "v">>,
   <<"e", "p", "a", "m", "a", "i", "l", ".", "g", "o", "v">>,
   <<"g", "e", "p", "a", ".", "g", "o", "v">>,
   <<"i", "l", "e", "p", "a", ".", "g", "o", "v">>,
   <<"j", "e", "p", "a", ".", "g", "o", "v">>,
   <<"l", "j", "c", "p", "a", ".", "g", "o", "v">>,
   <<"q", "a", ".", "g", "o", "v">>,
   <<"u", "s", "e", "p", "a", ".", "o", "n", "m", "i", "c", "r", "o", "s", "o", "f", "t", ".", "c", "o", "m">>
  }

EMAIL_FIXES ==
  <<
   <<<<"z", "u", "m", "w", "a", "l", "t", "@", "a", "m", "e", "r", "i", "c", "a", "n", "c", "h", "e", "m", "i", "s", "t", "r", "y", ".", "c", "o", "m">>, <<"b", "r", "y", "a", "n", "_", "z", "u", "m", "w", "a", "l", "t", "@", "a", "m", "e", "r", "i", "c", "a", "n", "c", "h", "e", "m", "i", "s", "t", "r", "y", ".", "c", "o", "m">>>>,
   <<<<"b", "r", "y", "a", "n", ".", "z", "i", "i", "m", "w", "a", "l", "t", "@", "a", "m", "e", "r", "i", "c", "a", "n", "c", "h", "e", "m", "i", "s", "t", "r", "y", ".", "c", "o", "m">>, <<"b", "r", "y", "a", "n", "_", "z", "u", "m", "w", "a", "l", "t", "@", "a", "m", "e", "r", "i", "c", "a", "n", "c", "h", "e", "m", "i", "s", "t", "r", "y", ".", "c", "o", "m">>>>
  >>

DOMAIN_FIXES ==
  <<
   <<<<"b", "1", "m", ".", "g", "o", "v">>, <<"b", "l", "m", ".", "g", "o", "v">>>>,
   <<<<"q", "m", "a", "i", "l", ".", "c", "o", "m">>, <<"g", "m", "a", "i", "l", ".", "c", "o", "m">>>>,
   <<<<"g", "m", "i", "a", "l", ".", "c", "o", "m">>, <<"g", "m", "a", "i", "l", ".", "c", "o", "m">>>>,
   <<<<"g", "r", "n", "a", "i", "l", ".", "c", "o", "m">>, <<"g", "m", "a", "i", "l", ".", "c", "o", "m">>>>,
   <<<<"g", "r", "n", "a", "l", "l", ".", "c", "o", "m">>, <<"g", "m", "a", "i", "l", ".", "c", "o", "m">>>>,
   <<<<"q", "r", "n", "a", "i", "l", ".", "c", "o", "m">>, <<"g", "m", "a", "i", "l", ".", "c", "o", "m">>>>,
   <<<<"g", "m", "a", "i", "1", ".", "c", "o", "m">>, <<"g", "m", "a", "i", "l", ".", "c", "o", "m">>>>,
   <<<<"a", "c", "v", "p", "l", ".", "o", "r", "g">>, <<"a", "c", "y", "p", "l", ".", "o", "r", "g">>>>,
   <<<<"a", "c", "y", "p", "i", ".", "o", "r", "g">>, <<"a", "c", "y", "p", "l", ".", "o", "r", "g">>>>,
   <<<<"c", "3", "i", ".", "o", "r", "g">>, <<"c", "e", "i", ".", "o", "r", "g">>>>,
   <<<<"a", "f", "a", "n", ".", "d", "p", "a", ".", "o", "r", "g">>, <<"a", "f", "a", "n", "d", "p", "a", ".", "o", "r", "g">>>>,
   <<<<"a", "f", "3", "n", "d", "p", "a", ".", "o", "r", "g">>, <<"a", "f", "a", "n", "d", "p", "a", ".", "o", "r", "g">>>>,
   <<<<"i", "o", "s", "i", "d", "o", "i", ".", "g", "o", "v">>, <<"i", "o", "s", ".", "d", "o", "i", ".", "g", "o", "v">>>>,
   <<<<"i", "o", "s", ".", "d", "o", "i", "g", "o", "v">>, <<"i", "o", "s", ".", "d", "o", "i", ".", "g", "o", "v">>>>,
   <<<<"i", "o", "s", "i", "d", "o", "i", ".", "g", "o", "y">>, <<"i", "o", "s", ".", "d", "o", "i", ".", "g", "o", "v">>>>,
   <<<<"i", "o", "s", "d", "o", "i", ".", "g", "o", "v">>, <<"i", "o", "s", ".", "d", "o", "i", ".", "g", "o", "v">>>>,
   <<<<"j", "o", "s", ".", "d", "o", "i", ".", "g", "o", "v">>, <<"i", "o", "s", ".", "d", "o", "i", ".", "g", "o", "v">>>>,
   <<<<"o", "s", ".", "d", "o", "i", ".", "g", "o", "v">>, <<"i", "o", "s", ".", "d", "o", "i", ".", "g", "o", "v">>>>,
   <<<<"i", "o", ".", "s", ".", "d", "o", "i", ".", "g", "o", "v">>, <<"i", "o", "s", ".", "d", "o", "i", ".", "g", "o", "v">>>>,
   <<<<"i", "i", "o", "s", ".", "d", "o", "i", ".", "g", "o", "v">>, <<"i", "o", "s", ".", "d", "o", "i", ".", "g", "o", "v">>>>,
   <<<<"s", "o", "l", "d", "o", "i", ".", "g", "o", "v">>, <<"s", "o", "l", ".", "d", "o", "i", ".", "g", "o", "v">>>>,
   <<<<"l", "s", "o", "l", ".", "d", "o", "i", ".", "g", "o", "v">>, <<"s", "o", "l", ".", "d", "o", "i", ".", "g", "o", "v">>>>,
   <<<<"a", "i", "a", "s", "k", "a", ".", "g", "o", "v">>, <<"a", "l", "a", "s", "k", "a", ".", "g", "o", "v">>>>,
   <<<<"m", "a", "i", "i", ".", "m", "i", "l">>, <<"m", "a", "i", "l", ".", "m", "i", "l">>>>,
   <<<<"c", "h", "e", "v", "r", "o", "n", "t", "e", "x", "a", "c", "o", ".", "c", "o", "m">>, <<"c", "h", "e", "v", "r", "o", "n", ".", "c", "o", "m">>>>,
   <<<<"c", "h", "e", "y", "r", "o", "n", ".", "c", "o", "m">>, <<"c", "h", "e", "v", "r", "o", "n", ".", "c", "o", "m">>>>,
   <<<<"w", "e", "s", "t", "g", "o", "y", ".", "o", "r", "g">>, <<"w", "e", "s", "t", "g", "o", "v", ".", "o", "r", "g">>>>,
   <<<<"o", "u", "r", "p", "u", "b", "l", "i", "c", "s", "e", "r", "y", "i", "c", "e", ".", "o", "r", "g">>, <<"o", "u", "r", "p", "u", "b", "l", "i", "c", "s", "e", "r", "v", "i", "c", "e", ".", "o", "r", "g">>>>,
   <<<<"c", "o", "n", "s", "e", "r", "y", "a", "t", "i", "y", "e", ".", "o", "r", "g">>, <<"c", "o", "n", "s", "e", "r", "v", "a", "t", "i", "v", "e", ".", "o", "r", "g">>>>,
   <<<<"c", "o", "n", "s", "e", "r", "y", "a", "t", "i", "o", "n", "f", "u", "n", "d", ".", "o", "r", "g">>, <<"c", "o", "n", "s", "e", "r", "v", "a", "t", "i", "o", "n", "f", "u", "n", "d", ".", "o", "r", "g">>>>,
   <<<<"c", "o", "n", "s", "e", "r", "y", "a", "m", "e", "r", "i", "c", "a", ".", "o", "r", "g">>, <<"c", "o", "n", "s", "e", "r", "v", "a", "m", "e", "r", "i", "c", "a", ".", "o", "r", "g">>>>,
   <<<<"y", "e", "n", "a", "b", "l", "e", ".", "c", "o", "m">>, <<"v", "e", "n", "a", "b", "l", "e", ".", "c", "o", "m">>>>,
   <<<<"y", "e", "r", "i", "z", "o", "n", ".", "n", "e", "t">>, <<"v", "e", "r", "i", "z", "o", "n", ".", "n", "e", "t">>>>,
   <<<<"y", "o", "l", "y", "o", ".", "c", "o", "m">>, <<"v", "o", "l", "v", "o", ".", "c", "o", "m">>>>,
   <<<<"y", "a", "l", "e", "r", "o", ".", "c", "o", "m">>, <<"v", "a", "l", "e", "r", "o", ".", "c", "o", "m">>>>,
   <<<<"y", "o", "c", "g", "e", "n", ".", "c", "o", "m">>, <<"v", "o", "c", "g", "e", "n", ".", "c", "o", "m">>>>,
   <<<<"y", "i", "c", "t", "o", "r", "y", "e", "n", "t", "e", "r", "p", "r", "i", "s", "e", "s", ".", "c", "o", "m">>, <<"v", "i", "c", "t", "o", "r", "y", "e", "n", "t", "e", "r", "p", "r", "i", "s", "e", "s", ".", "c", "o", "m">>>>,
   <<<<"y", "i", "s", "i", "t", "o", "k", "c", ".", "c", "o", "m">>, <<"v", "i", "s", "i", "t", "o", "k", "c", ".", "c", "o", "m">>>>,
   <<<<"l", "i", "y", "i", "n", "g", "s", "t", "o", "n", "g", "r", "o", "u", "p", "d", "c", ".", "c", "o", "m">>, <<"l", "i", "v", "i", "n", "g", "s", "t", "o", "n", "g", "r", "o", "u", "p", "d", "c", ".", "c", "o", "m">>>>,
   <<<<"l", "i", "y", "i", "n", "g", "s", "t", "o", "n", "g", "r", "o", "u", "p", "d", "c", ".", "c", "o">>, <<"l", "i", "v", "i", "n", "g", "s", "t", "o", "n", "g", "r", "o", "u", "p", "d", "c", ".", "c", "o", "m">>>>,
   <<<<"h", "o", "g", "a", "n", "l", "o", "y", "e", "l", "l", "s", ".", "c", "o", "m">>, <<"h", "o", "g", "a", "n", "l", "o", "v", "e", "l", "l", "s", ".", "c", "o", "m">>>>,
   <<<<"h", "o", "g", "a", "n", "l", "o", "y", "e", "i", "i", "s", ".", "c", "o", "m">>, <<"h", "o", "g", "a", "n", "l", "o", "v", "e", "l", "l", "s", ".", "c", "o", "m">>>>,
   <<<<"h", "o", "g", "a", "n", "j", "o", "y", "e", "l", "l", "s", ".", "c", "o", "m">>, <<"h", "o", "g", "a", "n", "l", "o", "v", "e", "l", "l", "s", ".", "c", "o", "m">>>>,
   <<<<"n", "a", "y", "i", "g", "a", "t", "o", "r", "s", "g", "l", "o", "b", "a", "l", ".", "c", "o", "m">>, <<"n", "a", "v", "i", "g", "a", "t", "o", "r", "s", "g", "l", "o", "b", "a", "l", ".", "c", "o", "m">>>>,
   <<<<"g", "a", "y", "e", "l", "r", "e", "s", "o", "u", "r", "c", "e", "s", ".", "c", "o", "m">>, <<"g", "a", "v", "e", "l", "r", "e", "s", "o", "u", "r", "c", "e", "s", ".", "c", "o", "m">>>>,
   <<<<"c", "o", "l", "o", "r", "a", "d", "o", "l", "i", "y", "e", "s", "t", "o", "c", "k", ".", "o", "r", "g">>, <<"c", "o", "l", "o", "r", "a", "d", "o", "l", "i", "v", "e", "s", "t", "o", "c", "k", ".", "o", "r", "g">>>>,
   <<<<"c", "o", "l", "o", "s", "t", "a", "t", "e", ".", "e", "d", "u">>, <<"c", "o", "l", "o", "s", "t", "a", "t", "e", ".", "e", "d", "u">>>>,
   <<<<"h", "o", "y", "d", "e", "n", "g", "r", "a", "y", "a", "s", "s", "o", "c", "i", "a", "t", "e", "s", ".", "c", "o", "m">>, <<"b", "o", "y", "d", "e", "n", "g", "r", "a", "y", "a", "s", "s", "o", "c", "i", "a", "t", "e", "s", ".", "c", "o", "m">>>>,
   <<<<"h", "h", "q", "y", "e", "n", "t", "u", "r", "e", "s", ".", "c", "o", "m">>, <<"h", "h", "q", "v", "e", "n", "t", "u", "r", "e", "s", ".", "c", "o", "m">>>>,
   <<<<"h", "e", "w", "e", "l", "l", "e", "y", "e", "n", "t", "s", ".", "c", "o", "m">>, <<"h", "e", "w", "e", "l", "l", "e", "v", "e", "n", "t", "s", ".", "c", "o", "m">>>>,
   <<<<"t", "o", "x", "s", "e", "r", "y", "i", "c", "e", "s", ".", "c", "o", "m">>, <<"t", "o", "x", "s", "e", "r", "v", "i", "c", "e", "s", ".", "c", "o", "m">>>>,
   <<<<"p", "u", "b", "l", "i", "c", ".", "g", "o", "y", "d", "e", "l", "i", "y", "e", "r", "y", ".", "c", "o", "m">>, <<"p", "u", "b", "l", "i", "c", ".", "g", "o", "v", "d", "e", "l", "i", "v", "e", "r", "y", ".", "c", "o", "m">>>>,
   <<<<"s", "e", "r", "y", "i", "c", "e", ".", "g", "o", "y", "d", "e", "l", "i", "y", "e", "r", "y", ".", "c", "o", "m">>, <<"s", "e", "r", "v", "i", "c", "e", ".", "g", "o", "v", "d", "e", "l", "i", "v", "e", "r", "y", ".", "c", "o", "m">>>>,
   <<<<"b", "c", "d", "t", "r", "a", "y", "e", "l", ".", "c", "o", "m">>, <<"b", "c", "d", "t", "r", "a", "v", "e", "l", ".", "c", "o", "m">>>>,
   <<<<"c", "r", "e", "a", "t", "i", "y", "e", "-", "m", "i", "l", "l", ".", "c", "o", "m">>, <<"c", "r", "e", "a", "t", "i", "v", "e", "-", "m", "i", "l", "l", ".", "c", "o", "m">>>>,
   <<<<"i", "n", "y", "a", "r", "i", "a", "n", "t", "g", "r", ".", "c", "o", "m">>, <<"i", "n", "v", "a", "r", "i", "a", "n", "t", "g", "r", ".", "c", "o", "m">>>>,
   <<<<"d", "a", "i", "l", "y", "c", "a", "l", "l", "e", "m", "e", "w", "s", "f", "o", "u", "n", "d", "a", "t", "i", "o", "n", ".", "o", "r", "g">>, <<"d", "a", "i", "l", "y", "c", "a", "l", "l", "e", "r", "n", "e", "w", "s", "f", "o", "u", "n", "d", "a", "t", "i", "o", "n", ".", "o", "r", "g">>>>,
   <<<<"b", "o", "c", "k", "o", "m", "y", "g", "r", "o", "u", "p", ".", "c", "o", "m">>, <<"b", "o", "c", "k", "o", "r", "n", "y", "g", "r", "o", "u", "p", ".", "c", "o", "m">>>>,
   <<<<"h", "o", "c", "k", "o", "m", "y", "g", "r", "o", "u", "p", ".", "c", "o", "m">>, <<"b", "o", "c", "k", "o", "r", "n", "y", "g", "r", "o", "u", "p", ".", "c", "o", "m">>>>,
   <<<<"b", "q", "c", "k", "o", "m", "y", "g", "r", "q", "u", "p", ".", "c", "o", "m">>, <<"b", "o", "c", "k", "o", "r", "n", "y", "g", "r", "o", "u", "p", ".", "c", "o", "m">>>>,
   <<<<"b", "o", "c", "k", "o", "m", "y", "g", "r", "o", "u", "p", ".", "c", "o">>, <<"b", "o", "c", "k", "o", "r", "n", "y", "g", "r", "o", "u", "p", ".", "c", "o", "m">>>>,
   <<<<"b", "o", "c", "k", "o", "m", "y", "g", "r", "o", "t", "i", "p", ".", "c", "o", "m">>, <<"b", "o", "c", "k", "o", "r", "n", "y", "g", "r", "o", "u", "p", ".", "c", "o", "m">>>>,
   <<<<"s", "o", "u", "t", "h", "e", "m", "c", "o", ".", "c", "o", "m">>, <<"s", "o", "u", "t", "h", "e", "r", "n", "c", "o", ".", "c", "o", "m">>>>,
   <<<<"s", "i", "d", "i", "e", "y", ".", "c", "o", "m">>, <<"s", "i", "d", "l", "e", "y", ".", "c", "o", "m">>>>,
   <<<<"s", "i", "d", "i", "e", "y", ".", "c", "o">>, <<"s", "i", "d", "l", "e", "y", ".", "c", "o", "m">>>>,
   <<<<"h", "o", "l", "l", "a", "n", "d", "l", "i", "a", "r", "t", ".", "c", "o", "m">>, <<"h", "o", "l", "l", "a", "n", "d", "h", "a", "r", "t", ".", "c", "o", "m">>>>,
   <<<<"h", "o", "n", "a", "n", "d", "h", "a", "r", "t", ".", "c", "o", "m">>, <<"h", "o", "l", "l", "a", "n", "d", "h", "a", "r", "t", ".", "c", "o", "m">>>>,
   <<<<"h", "q", "l", "l", "a", "n", "d", "h", "a", "r", "t", ".", "c", "o", "m">>, <<"h", "o", "l", "l", "a", "n", "d", "h", "a", "r", "t", ".", "c", "o", "m">>>>,
   <<<<"n", "e", "l", "s", "o", "n", "m", "i", "i", "l", "l", "i", "n", "s", ".", "c", "o", "m">>, <<"n", "e", "l", "s", "o", "n", "m", "u", "l", "l", "i", "n", "s", ".", "c", "o", "m">>>>,
   <<<<"n", "e", "l", "s", "o", "n", "m", "u", "l", "l", "m", "s", ".", "c", "o", "m">>, <<"n", "e", "l", "s", "o", "n", "m", "u", "l", "l", "i", "n", "s", ".", "c", "o", "m">>>>,
   <<<<"a", "i", "u", "m", "i", "n", "u", "m", ".", "o", "r", "g">>, <<"a", "l", "u", "m", "i", "n", "u", "m", ".", "o", "r", "g">>>>,
   <<<<"a", "i", "p", "h", "q", ".", "o", "r", "g">>, <<"a", "f", "p", "h", "q", ".", "o", "r", "g">>>>,
   <<<<"a", "f", "p", "n", "i", ".", "o", "r", "g">>, <<"a", "f", "p", "h", "q", ".", "o", "r", "g">>>>,
   <<<<"c", "a", "r", "g", "i", "l", "i", ".", "c", "o", "m">>, <<"c", "a", "r", "g", "i", "l", "l", ".", "c", "o", "m">>>>,
   <<<<"c", "a", "r", "g", "i", "n", ".", "c", "o", "m">>, <<"c", "a", "r", "g", "i", "l", "l", ".", "c", "o", "m">>>>,
   <<<<"c", "o", "n", "o", "c", "o", "p", "h", "i", "l", "i", "i", "p", "s", ".", "c", "o", "m">>, <<"c", "o", "n", "o", "c", "o", "p", "h", "i", "l", "l", "i", "p", "s", ".", "c", "o", "m">>>>,
   <<<<"c", "o", "n", "o", "c", "o", "p", "h", "i", "j", "l", "i", "p", "s", ".", "c", "o", "m">>, <<"c", "o", "n", "o", "c", "o", "p", "h", "i", "l", "l", "i", "p", "s", ".", "c", "o", "m">>>>,
   <<<<"c", "o", "n", "o", "c", "o", "p", "h", "i", "g", "l", "i", "p", "s", ".", "c", "o", "m">>, <<"c", "o", "n", "o", "c", "o", "p", "h", "i", "l", "l", "i", "p", "s", ".", "c", "o", "m">>>>,
   <<<<"c", "o", "n", "o", "c", "o", "p", "h", "i", "h", "i", "p", "s", ".", "c", "o", "m">>, <<"c", "o", "n", "o", "c", "o", "p", "h", "i", "l", "l", "i", "p", "s", ".", "c", "o", "m">>>>,
   <<<<"c", "o", "n", "o", "c", "o", "p", "h", "i", "l", "j", "i", "p", "s", ".", "c", "o", "m">>, <<"c", "o", "n", "o", "c", "o", "p", "h", "i", "l", "l", "i", "p", "s", ".", "c", "o", "m">>>>,
   <<<<"c", "o", "n", "o", "c", "o", "o", "h", "i", "i", "l", "i", "d", "s", ".", "c", "o">>, <<"c", "o", "n", "o", "c", "o", "p", "h", "i", "l", "l", "i", "p", "s", ".", "c", "o", "m">>>>,
   <<<<"c", "o", "n", "o", "c", "o", "p", "h", "i", "i", "l", "i", "p", "s", ".", "c", "o", "m">>, <<"c", "o", "n", "o", "c", "o", "p", "h", "i", "l", "l", "i", "p", "s", ".", "c", "o", "m">>>>,
   <<<<"c", "o", "n", "o", "c", "o", "p", "h", "i", "y", "i", "p", "s", ".", "c", "o">>, <<"c", "o", "n", "o", "c", "o", "p", "h", "i", "l", "l", "i", "p", "s", ".", "c", "o", "m">>>>,
   <<<<"b", "q", "e", "i", "n", "g", ".", "c", "o", "m">>, <<"b", "o", "e", "i", "n", "g", ".", "c", "o", "m">>>>,
   <<<<"a", "r", "c", "h", "c", "o", "a", "i", ".", "c", "o", "m">>, <<"a", "r", "c", "h", "c", "o", "a", "l", ".", "c", "o", "m">>>>,
   <<<<"c", "o", "n", "s", "o", "l", "e", "i", "i", "e", "r", "g", "y", ".", "c", "o", "m">>, <<"c", "o", "n", "s", "o", "l", "e", "n", "e", "r", "g", "y", ".", "c", "o", "m">>>>,
   <<<<"g", "m", "a", "i", "i", ".", "c", "o", "m">>, <<"g", "m", "a", "i", "l", ".", "c", "o", "m">>>>,
   <<<<"l", "i", "s", "t", "s", "e", "r", "y", "e", ".", "a", "p", "i", ".", "o", "r", "g">>, <<"l", "i", "s", "t", "s", "e", "r", "v", ".", "a", "p", "i", ".", "o", "r", "g">>>>,
   <<<<"a", "l", "p", "h", "a", "g", "r", "p", "d", "c", ".", "c", "o", "m">>, <<"a", "l", "p", "h", "a", "g", "r", "p", "d", "c", ".", "c", "o", "m">>>>,
   <<<<"a", "i", "p", "h", "a", "g", "r", "p", "d", "c", ".", "c", "o", "m">>, <<"a", "l", "p", "h", "a", "g", "r", "p", "d", "c", ".", "c", "o", "m">>>>,
   <<<<"h", "e", "r", "i", "f", "a", "g", "e", ".", "o", "r", "g">>, <<"h", "e", "r", "i", "t", "a", "g", "e", ".", "o", "r", "g">>>>,
   <<<<"h", "c", "r", "i", "t", "a", "g", "e", ".", "o", "r", "g">>, <<"h", "e", "r", "i", "t", "a", "g", "e", ".", "o", "r", "g">>>>,
   <<<<"h", "e", "n", "t", "a", "g", "e", ".", "o", "r", "g">>, <<"h", "e", "r", "i", "t", "a", "g", "e", ".", "o", "r", "g">>>>,
   <<<<"a", "m", "e", "r", "i", "c", "a", "n", "c", "h", "e", "m", "i", "s", "f", "r", "y", ".", "c", "o", "m">>, <<"a", "m", "e", "r", "i", "c", "a", "n", "c", "h", "e", "m", "i", "s", "t", "r", "y", ".", "c", "o", "m">>>>,
   <<<<"a", "m", "e", "r", "i", "c", "a", "n", "c", "h", "c", "m", "i", "s", "r", "y", ".", "c", "o", "m">>, <<"a", "m", "e", "r", "i", "c", "a", "n", "c", "h", "e", "m", "i", "s", "t", "r", "y", ".", "c", "o", "m">>>>,
   <<<<"a", "m", "e", "r", "i", "c", "a", "n", "c", "h", "e", "n", "i", "i", "s", "t", "r", "y", ".", "c", "o", "m">>, <<"a", "m", "e", "r", "i", "c", "a", "n", "c", "h", "e", "m", "i", "s", "t", "r", "y", ".", "c", "o", "m">>>>,
   <<<<"a", "m", "e", "r", "i", "e", "a", "n", "c", "h", "e", "m", "i", "s", "t", "r", "y", ".", "c", "o", "m">>, <<"a", "m", "e", "r", "i", "c", "a", "n", "c", "h", "e", "m", "i", "s", "t", "r", "y", ".", "c", "o", "m">>>>,
   <<<<"a", "m", "e", "r", "i", "c", "a", "n", "c", "h", "e", "m", "i", "s", "t", "r", "y", ".", "c", "o", "n", "i">>, <<"a", "m", "e", "r", "i", "c", "a", "n", "c", "h", "e", "m", "i", "s", "t", "r", "y", ".", "c", "o", "m">>>>,
   <<<<"a", "m", "e", "r", "i", "c", "a", "n", "c", "h", "e", "m", "i", "s", "t", "f", "y", ".", "c", "o">>, <<"a", "m", "e", "r", "i", "c", "a", "n", "c", "h", "e", "m", "i", "s", "t", "r", "y", ".", "c", "o", "m">>>>,
   <<<<"a", "m", "e", "r", "l", "e", "a", "r", "i", "c", "h", "e", "m", "i", "s", "t", "r", "y", ".", "c", "o", "m">>, <<"a", "m", "e", "r", "i", "c", "a", "n", "c", "h", "e", "m", "i", "s", "t", "r", "y", ".", "c", "o", "m">>>>,
   <<<<"a", "m", "e", "r", "i", "c", "a", "i", "i", "c", "h", "e", "m", "i", "s", "t", "r", "y", ".", "c", "o", "m">>, <<"a", "m", "e", "r", "i", "c", "a", "n", "c", "h", "e", "m", "i", "s", "t", "r", "y", ".", "c", "o", "m">>>>,
   <<<<"c", "r", "q", "p", "l", "i", "f", "e", "a", "m", "e", "r", "i", "c", "a", ".", "o", "r", "g">>, <<"c", "r", "o", "p", "l", "i", "f", "e", "a", "m", "e", "r", "i", "c", "a", ".", "o", "r", "g">>>>,
   <<<<"c", "r", "o", "p", "n", "f", "e", "a", "m", "e", "r", "i", "c", "a", ".", "o", "r", "g">>, <<"c", "r", "o", "p", "l", "i", "f", "e", "a", "m", "e", "r", "i", "c", "a", ".", "o", "r", "g">>>>,
   <<<<"c", "r", "o", "p", "i", "i", "f", "e", "a", "m", "e", "r", "i", "c", "a", ".", "o", "r", "g">>, <<"c", "r", "o", "p", "l", "i", "f", "e", "a", "m", "e", "r", "i", "c", "a", ".", "o", "r", "g">>>>,
   <<<<"c", "r", "o", "p", "l", "i", "f", "e", "a", "m", "e", "r", "i", "e", "a", ".", "o", "r", "g">>, <<"c", "r", "o", "p", "l", "i", "f", "e", "a", "m", "e", "r", "i", "c", "a", ".", "o", "r", "g">>>>,
   <<<<"c", "r", "o", "p", "l", "i", "f", "e", "a", "m", "e", "n", "c", "a", ".", "o", "r", "g">>, <<"c", "r", "o", "p", "l", "i", "f", "e", "a", "m", "e", "r", "i", "c", "a", ".", "o", "r", "g">>>>,
   <<<<"c", "r", "o", "p", "i", "s", "f", "e", "a", "n", "i", "e", "r", "s", "c", "a", ".", "o", "r", "g">>, <<"c", "r", "o", "p", "l", "i", "f", "e", "a", "m", "e", "r", "i", "c", "a", ".", "o", "r", "g">>>>,
   <<<<"c", "r", "q", "p", "i", "i", "f", "e", "a", "r", "o", "e", "r", "i", "e", "a", ".", "o", "r", "g">>, <<"c", "r", "o", "p", "l", "i", "f", "e", "a", "m", "e", "r", "i", "c", "a", ".", "o", "r", "g">>>>,
   <<<<"c", "r", "o", "p", "h", "f", "e", "a", "m", "e", "r", "i", "c", "a", ".", "o", "r", "g">>, <<"c", "r", "o", "p", "l", "i", "f", "e", "a", "m", "e", "r", "i", "c", "a", ".", "o", "r", "g">>>>,
   <<<<"c", "r", "o", "p", "l", "i", "f", "e", "a", "r", "o", "e", "r", "i", "c", "a", ".", "o", "r", "g">>, <<"c", "r", "o", "p", "l", "i", "f", "e", "a", "m", "e", "r", "i", "c", "a", ".", "o", "r", "g">>>>,
   <<<<"c", "f", "o", "p", "i", "i", "f", "e", "a", "m", "e", "f", "i", "c", "a", ".", "o", "r", "g">>, <<"c", "r", "o", "p", "l", "i", "f", "e", "a", "m", "e", "r", "i", "c", "a", ".", "o", "r", "g">>>>,
   <<<<"c", "f", "q", "p", "l", "i", "f", "e", "a", "m", "e", "r", "i", "c", "a", ".", "o", "r", "g">>, <<"c", "r", "o", "p", "l", "i", "f", "e", "a", "m", "e", "r", "i", "c", "a", ".", "o", "r", "g">>>>,
   <<<<"c", "r", "o", "p", "k", "f", "e", "a", "m", "e", "r", "i", "c", "a", ".", "o", "i", "g">>, <<"c", "r", "o", "p", "l", "i", "f", "e", "a", "m", "e", "r", "i", "c", "a", ".", "o", "r", "g">>>>,
   <<<<"c", "r", "o", "p", "g", "s", "f", "e", "a", "m", "e", "r", "i", "c", "a", ".", "o", "r", "g">>, <<"c", "r", "o", "p", "l", "i", "f", "e", "a", "m", "e", "r", "i", "c", "a", ".", "o", "r", "g">>>>,
   <<<<"c", "r", "q", "p", "s", "i", "f", "e", "a", "m", "e", "n", "e", "a", ".", "o", "r", "g">>, <<"c", "r", "o", "p", "l", "i", "f", "e", "a", "m", "e", "r", "i", "c", "a", ".", "o", "r", "g">>>>,
   <<<<"c", "r", "q", "p", "j", "i", "f", "e", "a", "m", "e", "r", "i", "e", "a", ".", "o", "r", "g">>, <<"c", "r", "o", "p", "l", "i", "f", "e", "a", "m", "e", "r", "i", "c", "a", ".", "o", "r", "g">>>>,
   <<<<"c", "r", "o", "p", "i", "s", "f", "e", "a", "m", "e", "r", "s", "c", "a", ".", "o", "r", "g">>, <<"c", "r", "o", "p", "l", "i", "f", "e", "a", "m", "e", "r", "i", "c", "a", ".", "o", "r", "g">>>>,
   <<<<"c", "r", "o", "p", "s", "i", "f", "e", "a", "n", "i", "e", "f", "i", "c", "a", ".", "o", "r", "g">>, <<"c", "r", "o", "p", "l", "i", "f", "e", "a", "m", "e", "r", "i", "c", "a", ".", "o", "r", "g">>>>,
   <<<<"c", "r", "o", "p", "n", "f", "e", "a", "n", "i", "e", "r", "i", "c", "a", ".", "o", "r", "r">>, <<"c", "r", "o", "p", "l", "i", "f", "e", "a", "m", "e", "r", "i", "c", "a", ".", "o", "r", "g">>>>,
   <<<<"c", "r", "o", "p", "i", "i", "f", "e", "a", "m", "e", "n", "c", "a", ".", "o", "r", "g">>, <<"c", "r", "o", "p", "l", "i", "f", "e", "a", "m", "e", "r", "i", "c", "a", ".", "o", "r", "g">>>>,
   <<<<"g", "e", ".", "c", "o">>, <<"g", "e", ".", "c", "o", "m">>>>,
   <<<<"c", "b", "s", "n", "e", "w", "s", ".", "c", "o">>, <<"c", "b", "s", "n", "e", "w", "s", ".", "c", "o", "m">>>>,
   <<<<"s", "o", "c", "m", "a", ".", "c", "o">>, <<"s", "o", "c", "m", "a", ".", "c", "o", "m">>>>,
   <<<<"n", "a", "h", "b", ".", "o", "f", "g">>, <<"n", "a", "h", "b", ".", "o", "r", "g">>>>,
   <<<<"n", "a", "h", "b", ".", "g", "r", "g">>, <<"n", "a", "h", "b", ".", "o", "r", "g">>>>,
   <<<<"l", "u", "n", "g", ".", "o", "f", "g">>, <<"l", "u", "n", "g", ".", "o", "r", "g">>>>,
   <<<<"n", "a", "m", ".", "o", "f", "g">>, <<"n", "a", "m", ".", "o", "r", "g">>>>,
   <<<<"o", "k", "f", "b", ".", "o", "f", "g">>, <<"o", "k", "f", "b", ".", "o", "r", "g">>>>,
   <<<<"a", "w", "w", "a", ".", "o", "f", "g">>, <<"a", "w", "w", "a", ".", "o", "r", "g">>>>,
   <<<<"q", "k", "f", "b", ".", "o", "r", "g">>, <<"o", "k", "f", "b", ".", "o", "r", "g">>>>,
   <<<<"g", "r", "o", "w", "t", "h", "e", "n", "e", "r", "a", "y", ".", "o", "r", "g">>, <<"g", "r", "o", "w", "t", "h", "e", "n", "e", "r", "g", "y", ".", "o", "r", "g">>>>,
   <<<<"n", "o", "h", "l", "e", ".", "o", "r", "g">>, <<"n", "o", "b", "l", "e", ".", "o", "r", "g">>>>,
   <<<<"s", "a", "l", "l", "t", ".", "c", "o", "m">>, <<"s", "a", "l", "t", ".", "c", "o", "m">>>>,
   <<<<"l", "o", "y", "e", "s", ".", "c", "o", "m">>, <<"l", "o", "v", "e", "s", ".", "c", "o", "m">>>>,
   <<<<"m", "i", "n", "i", "n", "g", "a", "m", "e", "r", "i", "c", "a", ".", "o", "r", "g">>, <<"m", "i", "n", "i", "n", "g", "a", "m", "e", "r", "i", "c", "a", ".", "o", "r", "g">>>>,
   <<<<"d", "o", "w", "c", "o", "m", "i", "n", "g", ".", "c", "o", "m">>, <<"d", "o", "w", "c", "o", "r", "n", "i", "n", "g", ".", "c", "o", "m">>>>,
   <<<<"c", "h", "s", "n", "e", "w", "s", ".", "c", "o", "m">>, <<"c", "b", "s", "n", "e", "w", "s", ".", "c", "o", "m">>>>,
   <<<<"h", "s", "p", "h", ".", "h", "a", "r", "y", "a", "r", "d", ".", "e", "d", "u">>, <<"h", "s", "p", "h", ".", "h", "a", "r", "v", "a", "r", "d", ".", "e", "d", "u">>>>,
   <<<<"w", "m", "s", "-", "j", "e", "n", ".", "c", "o", "m">>, <<"w", "m", "s", "-", "j", "e", "n", ".", "c", "o", "m">>>>,
   <<<<"l", "a", "w", "a", "6", "o", ".", "c", "o", "m">>, <<"l", "a", "w", "a", "6", "0", ".", "c", "o", "m">>>>,
   <<<<"7", "2", "o", "s", "t", "r", "a", "t", "e", "g", "i", "e", "s", ".", "c", "o", "m">>, <<"7", "2", "0", "s", "t", "r", "a", "t", "e", "g", "i", "e", "s", ".", "c", "o", "m">>>>,
   <<<<"g", "p", "s", "-", "5", "o", ".", "c", "o", "m">>, <<"g", "p", "s", "-", "5", "0", ".", "c", "o", "m">>>>,
   <<<<"c", "f", "a", "e", "o", "r", "p", ".", "c", "o", "m">>, <<"c", "f", "a", "c", "o", "r", "p", ".", "c", "o", "m">>>>,
   <<<<"p", "a", "i", "n", "f", ".", "o", "r", "g">>, <<"p", "a", "i", "n", "t", ".", "o", "r", "g">>>>,
   <<<<"e", "a", "e", "s", "t", ".", "c", "o", "m">>, <<"e", "a", "s", "t", ".", "c", "o", "m">>>>,
   <<<<"d", "o", "r", "o", "x", ".", "c", "o", "m">>, <<"d", "o", "r", "o", "x", ".", "c", "o", "m">>>>,
   <<<<"d", "q", "w", ".", "c", "o", "m">>, <<"d", "o", "w", ".", "c", "o", "m">>>>
  >>

DOMAIN_OCR_CHAR_MAP ==
  <<
   <<<<"r", "n">>, <<"m">>>>, <<<<"1">>, <<"l">>>>, <<<<"3">>, <<"a">>>>,
   <<<<"0">>, <<"o">>>>, <<<<"v">>, <<"y">>>>
  >>

LOCAL_OCR_CHAR_MAP ==
  <<
   <<<<"f", "f", "l">>, <<"m">>>>, <<<<"f", "f", "i">>, <<"n">>>>,
   <<<<"r", "n">>, <<"m">>>>, <<<<"i", "i">>, <<"n">>>>,
   <<<<"v">>, <<"y">>>>, <<<<"1">>, <<"l">>>>, <<<<"0">>, <<"o">>>>,
   <<<<"3">>, <<"a">>>>
  >>

BAD_SUFFIXES ==
  <<
   <<<<".", "q", "o", "v">>, <<".", "g", "o", "v">>>>,
   <<<<".", "a", "o", "v">>, <<".", "g", "o", "v">>>>,
   <<<<".", "g", "o", "y">>, <<".", "g", "o", "v">>>>,
   <<<<".", "r", "o", "v">>, <<".", "g", "o", "v">>>>,
   <<<<".", "s", "o", "v">>, <<".", "g", "o", "v">>>>,
   <<<<".", "e", "o", "v">>, <<".", "g", "o", "v">>>>,
   <<<<".", "o", "o", "v">>, <<".", "g", "o", "v">>>>,
   <<<<".", "f", "i", "o", "v">>, <<".", "g", "o", "v">>>>,
   <<<<".", "g", "o", "w">>, <<".", "g", "o", "v">>>>,
   <<<<".", "g", "c", "n">>, <<".", "g", "o", "v">>>>,
   <<<<".", "g", "q">>, <<".", "g", "o", "v">>>>,
   <<<<".", "g", "q", "y">>, <<".", "g", "o", "v">>>>,
   <<<<".", "g", "g", "y">>, <<".", "g", "o", "v">>>>,
   <<<<".", "g", "g">>, <<".", "g", "o", "v">>>>,
   <<<<".", "e", "o", "m">>, <<".", "c", "o", "m">>>>,
   <<<<".", "c", "o", "r", "n">>, <<".", "c", "o", "m">>>>,
   <<<<".", "c", "o", "m", "l">>, <<".", "c", "o", "m">>>>,
   <<<<".", "c", "o", "m", "i">>, <<".", "c", "o", "m">>>>,
   <<<<".", "o", "r", "q">>, <<".", "o", "r", "g">>>>,
   <<<<".", "o", "r", "q", "l">>, <<".", "o", "r", "g">>>>,
   <<<<".", "o", "r", "a">>, <<".", "o", "r", "g">>>>,
   <<<<".", "o", "r", "e">>, <<".", "o", "r", "g">>>>,
   <<<<".", "o", "r", "g", "l">>, <<".", "o", "r", "g">>>>,
   <<<<".", "e", "d", "u", "l">>, <<".", "e", "d", "u">>>>
  >>

LASTNAME_FIRST_DOMAINS ==
  {
   <<"e", "p", "a", ".", "g", "o", "v">>
  }

COMMON_FIRST_NAMES ==
  {
   <<"a", "a", "r", "o", "n">>, <<"a", "d", "a", "m">>,
   <<"a", "d", "r", "i", "a", "n">>, <<"a", "l", "a", "n">>,
   <<"a", "l", "b", "e", "r", "t">>, <<"a", "l", "e", "x">>,
   <<"a", "l", "e", "x", "a", "n", "d", "e", "r">>,
   <<"a", "l", "f", "r", "e", "d">>, <<"a", "l", "i", "c", "e">>,
   <<"a", "l", "i", "c", "i", "a">>, <<"a", "l", "i", "s", "o", "n">>,
   <<"a", "l", "l", "e", "n">>, <<"a", "l", "l", "i", "s", "o", "n">>,
   <<"a", "m", "a", "n", "d", "a">>, <<"a", "m", "b", "e", "r">>,
   <<"a", "m", "y">>, <<"a", "n", "d", "r", "e", "a">>,
   <<"a", "n", "d", "r", "e", "w">>, <<"a", "n", "g", "e", "l", "a">>,
   <<"a", "n", "n">>, <<"a", "n", "n", "a">>, <<"a", "n", "n", "e">>,
   <<"a", "n", "n", "i", "e">>, <<"a", "n", "t", "h", "o", "n", "y">>,
   <<"a", "p", "r", "i", "l">>, <<"a", "r", "t", "h", "u", "r">>,
   <<"a", "s", "h", "l", "e", "y">>, <<"b", "a", "r", "b", "a", "r", "a">>,
   <<"b", "a", "r", "r", "y">>, <<"b", "e", "n", "j", "a", "m", "i", "n">>,
   <<"b", "e", "r", "n", "a", "r", "d">>, <<"b", "e", "t", "h">>,
   <<"b", "e", "t", "h", "a", "n", "y">>, <<"b", "e", "t", "t", "y">>,
   <<"b", "e", "v", "e", "r", "l", "y">>, <<"b", "i", "l", "l">>,
   <<"b", "i", "l", "l", "y">>, <<"b", "l", "a", "k", "e">>,
   <<"b", "o", "b", "b", "y">>, <<"b", "o", "n", "n", "i", "e">>,
   <<"b", "r", "a", "d">>, <<"b", "r", "a", "d", "l", "e", "y">>,
   <<"b", "r", "e", "n", "d", "a">>, <<"b", "r", "e", "n", "d", "a", "n">>,
   <<"b", "r", "e", "n", "t">>, <<"b", "r", "e", "t", "t">>,
   <<"b", "r", "i", "a", "n">>, <<"b", "r", "i", "d", "g", "e", "t">>,
   <<"b", "r", "i", "t", "t", "a", "n", "y">>, <<"b", "r", "o", "o", "k">>,
   <<"b", "r", "o", "o", "k", "e">>, <<"b", "r", "u", "c", "e">>,
   <<"b", "r", "y", "a", "n">>, <<"c", "a", "l", "v", "i", "n">>,
   <<"c", "a", "m", "e", "r", "o", "n">>, <<"c", "a", "r", "l">>,
   <<"c", "a", "r", "o", "l">>, <<"c", "a", "r", "o", "l", "i", "n", "e">>,
   <<"c", "a", "r", "o", "l", "y", "n">>,
   <<"c", "a", "t", "h", "e", "r", "i", "n", "e">>, <<"c", "h", "a", "d">>,
   <<"c", "h", "a", "r", "l", "e", "s">>,
   <<"c", "h", "a", "r", "l", "o", "t", "t", "e">>,
   <<"c", "h", "e", "r", "y", "l">>, <<"c", "h", "r", "i", "s">>,
   <<"c", "h", "r", "i", "s", "t", "i", "a", "n">>,
   <<"c", "h", "r", "i", "s", "t", "i", "n", "a">>,
   <<"c", "h", "r", "i", "s", "t", "i", "n", "e">>,
   <<"c", "h", "r", "i", "s", "t", "o", "p", "h", "e", "r">>,
   <<"c", "i", "n", "d", "y">>, <<"c", "l", "a", "i", "r", "e">>,
   <<"c", "l", "a", "r", "e", "n", "c", "e">>, <<"c", "l", "a", "r", "k">>,
   <<"c", "l", "a", "u", "d", "i", "a">>,
   <<"c", "l", "i", "f", "f", "o", "r", "d">>, <<"c", "l", "i", "n", "t">>,
   <<"c", "o", "d", "y">>, <<"c", "o", "l", "e">>,
   <<"c", "o", "l", "i", "n">>, <<"c", "o", "n", "n", "i", "e">>,
   <<"c", "o", "n", "n", "o", "r">>, <<"c", "o", "r", "e", "y">>,
   <<"c", "r", "a", "i", "g">>, <<"c", "r", "y", "s", "t", "a", "l">>,
   <<"c", "y", "n", "t", "h", "i", "a">>, <<"d", "a", "l", "e">>,
   <<"d", "a", "l", "l", "a", "s">>, <<"d", "a", "n", "a">>,
   <<"d", "a", "n", "i", "e", "l">>, <<"d", "a", "n", "n", "y">>,
   <<"d", "a", "r", "r", "e", "n">>, <<"d", "a", "v", "e">>,
   <<"d", "a", "v", "i", "d">>, <<"d", "a", "w", "n">>,
   <<"d", "e", "a", "n">>, <<"d", "e", "b", "b", "i", "e">>,
   <<"d", "e", "b", "o", "r", "a", "h">>, <<"d", "e", "b", "r", "a">>,
   <<"d", "e", "n", "i", "s", "e">>, <<"d", "e", "n", "n", "i", "s">>,
   <<"d", "e", "r", "e", "k">>, <<"d", "e", "r", "r", "i", "c", "k">>,
   <<"d", "i", "a", "n", "a">>, <<"d", "i", "a", "n", "e">>,
   <<"d", "o", "n">>, <<"d", "o", "n", "a", "l", "d">>,
   <<"d", "o", "n", "n", "a">>, <<"d", "o", "r", "i", "s">>,
   <<"d", "o", "r", "o", "t", "h", "y">>, <<"d", "o", "u", "g">>,
   <<"d", "o", "u", "g", "l", "a", "s">>, <<"d", "r", "e", "w">>,
   <<"d", "u", "s", "t", "i", "n">>, <<"d", "y", "l", "a", "n">>,
   <<"e", "a", "r", "l">>, <<"e", "d", "d", "i", "e">>,
   <<"e", "d", "w", "a", "r", "d">>, <<"e", "i", "l", "e", "e", "n">>,
   <<"e", "l", "a", "i", "n", "e">>,
   <<"e", "l", "i", "z", "a", "b", "e", "t", "h">>,
   <<"e", "l", "l", "e", "n">>, <<"e", "m", "i", "l", "y">>,
   <<"e", "m", "m", "a">>, <<"e", "r", "i", "c">>,
   <<"e", "r", "i", "c", "a">>, <<"e", "r", "i", "n">>,
   <<"e", "r", "n", "e", "s", "t">>, <<"e", "u", "g", "e", "n", "e">>,
   <<"e", "v", "a">>, <<"e", "v", "a", "n">>,
   <<"e", "v", "e", "l", "y", "n">>, <<"f", "a", "i", "t", "h">>,
   <<"f", "l", "o", "r", "e", "n", "c", "e">>,
   <<"f", "r", "a", "n", "c", "e", "s">>,
   <<"f", "r", "a", "n", "c", "i", "s">>, <<"f", "r", "a", "n", "k">>,
   <<"f", "r", "e", "d">>, <<"f", "r", "e", "d", "e", "r", "i", "c", "k">>,
   <<"g", "a", "b", "r", "i", "e", "l">>, <<"g", "a", "r", "y">>,
   <<"g", "a", "v", "i", "n">>, <<"g", "e", "n", "e">>,
   <<"g", "e", "o", "r", "g", "e">>, <<"g", "e", "r", "a", "l", "d">>,
   <<"g", "i", "n", "a">>, <<"g", "l", "e", "n">>,
   <<"g", "l", "e", "n", "n">>, <<"g", "l", "o", "r", "i", "a">>,
   <<"g", "o", "r", "d", "o", "n">>, <<"g", "r", "a", "c", "e">>,
   <<"g", "r", "a", "n", "t">>, <<"g", "r", "e", "g">>,
   <<"g", "r", "e", "g", "o", "r", "y">>, <<"g", "w", "e", "n">>,
   <<"h", "a", "n", "n", "a", "h">>, <<"h", "a", "r", "o", "l", "d">>,
   <<"h", "a", "r", "r", "y">>, <<"h", "a", "r", "v", "e", "y">>,
   <<"h", "e", "a", "t", "h", "e", "r">>, <<"h", "e", "l", "e", "n">>,
   <<"h", "e", "n", "r", "y">>, <<"h", "e", "r", "b", "e", "r", "t">>,
   <<"h", "o", "l", "l", "y">>, <<"h", "o", "w", "a", "r", "d">>,
   <<"h", "u", "n", "t", "e", "r">>, <<"i", "r", "e", "n", "e">>,
   <<"i", "s", "a", "a", "c">>, <<"i", "v", "a", "n">>,
   <<"j", "a", "c", "k">>, <<"j", "a", "c", "k", "i", "e">>,
   <<"j", "a", "c", "o", "b">>,
   <<"j", "a", "c", "q", "u", "e", "l", "i", "n", "e">>,
   <<"j", "a", "m", "e", "s">>, <<"j", "a", "m", "i", "e">>,
   <<"j", "a", "n", "e">>, <<"j", "a", "n", "e", "t">>,
   <<"j", "a", "n", "i", "c", "e">>, <<"j", "a", "r", "e", "d">>,
   <<"j", "a", "s", "m", "i", "n", "e">>, <<"j", "a", "s", "o", "n">>,
   <<"j", "e", "a", "n">>, <<"j", "e", "f", "f">>,
   <<"j", "e", "f", "f", "r", "e", "y">>,
   <<"j", "e", "n", "n", "i", "f", "e", "r">>, <<"j", "e", "n", "n", "y">>,
   <<"j", "e", "r", "e", "m", "y">>, <<"j", "e", "r", "r", "y">>,
   <<"j", "e", "s", "s", "e">>, <<"j", "e", "s", "s", "i", "c", "a">>,
   <<"j", "i", "l", "l">>, <<"j", "i", "m", "m", "y">>,
   <<"j", "o", "a", "n">>, <<"j", "o", "a", "n", "n", "e">>,
   <<"j", "o", "c", "e", "l", "y", "n">>, <<"j", "o", "d", "y">>,
   <<"j", "o", "e", "l">>, <<"j", "o", "h", "n">>,
   <<"j", "o", "h", "n", "n", "y">>,
   <<"j", "o", "n", "a", "t", "h", "a", "n">>,
   <<"j", "o", "r", "d", "a", "n">>, <<"j", "o", "s", "e", "p", "h">>,
   <<"j", "o", "s", "h", "u", "a">>, <<"j", "o", "y", "c", "e">>,
   <<"j", "u", "d", "i", "t", "h">>, <<"j", "u", "d", "y">>,
   <<"j", "u", "l", "i", "a">>, <<"j", "u", "l", "i", "a", "n">>,
   <<"j", "u", "l", "i", "e">>, <<"j", "u", "s", "t", "i", "n">>,
   <<"k", "a", "r", "e", "n">>, <<"k", "a", "r", "l">>,
   <<"k", "a", "t", "e">>, <<"k", "a", "t", "h", "e", "r", "i", "n", "e">>,
   <<"k", "a", "t", "h", "l", "e", "e", "n">>,
   <<"k", "a", "t", "h", "r", "y", "n">>, <<"k", "a", "t", "h", "y">>,
   <<"k", "a", "t", "i", "e">>, <<"k", "e", "i", "t", "h">>,
   <<"k", "e", "l", "l", "y">>, <<"k", "e", "n">>,
   <<"k", "e", "n", "n", "e", "t", "h">>, <<"k", "e", "v", "i", "n">>,
   <<"k", "i", "m", "b", "e", "r", "l", "y">>, <<"k", "i", "r", "k">>,
   <<"k", "r", "i", "s", "t", "e", "n">>,
   <<"k", "r", "i", "s", "t", "i", "n">>,
   <<"k", "r", "i", "s", "t", "i", "n", "a">>, <<"k", "u", "r", "t">>,
   <<"k", "y", "l", "e">>, <<"l", "a", "n", "c", "e">>,
   <<"l", "a", "r", "r", "y">>, <<"l", "a", "u", "r", "a">>,
   <<"l", "a", "u", "r", "e", "n">>, <<"l", "a", "u", "r", "i", "e">>,
   <<"l", "a", "w", "r", "e", "n", "c", "e">>, <<"l", "e", "a", "h">>,
   <<"l", "e", "e">>, <<"l", "e", "o", "n">>,
   <<"l", "e", "o", "n", "a", "r", "d">>, <<"l", "e", "s", "l", "i", "e">>,
   <<"l", "i", "l", "l", "i", "a", "n">>, <<"l", "i", "n", "d", "a">>,
   <<"l", "i", "n", "d", "s", "a", "y">>, <<"l", "i", "s", "a">>,
   <<"l", "o", "i", "s">>, <<"l", "o", "r", "e", "t", "t", "a">>,
   <<"l", "o", "r", "i">>, <<"l", "o", "u", "i", "s">>,
   <<"l", "o", "u", "i", "s", "e">>, <<"l", "u", "c", "a", "s">>,
   <<"l", "u", "k", "e">>, <<"l", "y", "n", "n">>,
   <<"m", "a", "d", "i", "s", "o", "n">>, <<"m", "a", "r", "c">>,
   <<"m", "a", "r", "c", "u", "s">>,
   <<"m", "a", "r", "g", "a", "r", "e", "t">>, <<"m", "a", "r", "i", "a">>,
   <<"m", "a", "r", "i", "e">>, <<"m", "a", "r", "i", "l", "y", "n">>,
   <<"m", "a", "r", "i", "o", "n">>, <<"m", "a", "r", "k">>,
   <<"m", "a", "r", "s", "h", "a">>, <<"m", "a", "r", "t", "h", "a">>,
   <<"m", "a", "r", "t", "i", "n">>, <<"m", "a", "r", "v", "i", "n">>,
   <<"m", "a", "r", "y">>, <<"m", "a", "t", "t">>,
   <<"m", "a", "t", "t", "h", "e", "w">>,
   <<"m", "a", "u", "r", "e", "e", "n">>, <<"m", "a", "x">>,
   <<"m", "e", "g", "a", "n">>, <<"m", "e", "l", "i", "s", "s", "a">>,
   <<"m", "i", "c", "h", "a", "e", "l">>,
   <<"m", "i", "c", "h", "e", "l", "e">>,
   <<"m", "i", "c", "h", "e", "l", "l", "e">>, <<"m", "i", "k", "e">>,
   <<"m", "i", "l", "e", "s">>, <<"m", "i", "r", "a", "n", "d", "a">>,
   <<"m", "i", "s", "t", "y">>, <<"m", "i", "t", "c", "h", "e", "l", "l">>,
   <<"m", "o", "l", "l", "y">>, <<"m", "o", "n", "i", "c", "a">>,
   <<"m", "o", "r", "g", "a", "n">>, <<"m", "o", "r", "r", "i", "s">>,
   <<"n", "a", "n", "c", "y">>, <<"n", "a", "t", "a", "l", "i", "e">>,
   <<"n", "a", "t", "h", "a", "n">>, <<"n", "e", "i", "l">>,
   <<"n", "e", "l", "s", "o", "n">>,
   <<"n", "i", "c", "h", "o", "l", "a", "s">>,
   <<"n", "i", "c", "o", "l", "e">>, <<"n", "o", "a", "h">>,
   <<"n", "o", "r", "m", "a">>, <<"n", "o", "r", "m", "a", "n">>,
   <<"o", "l", "i", "v", "e", "r">>, <<"o", "l", "i", "v", "i", "a">>,
   <<"o", "s", "c", "a", "r">>, <<"o", "w", "e", "n">>,
   <<"p", "a", "i", "g", "e">>, <<"p", "a", "m", "e", "l", "a">>,
   <<"p", "a", "t", "r", "i", "c", "i", "a">>,
   <<"p", "a", "t", "r", "i", "c", "k">>, <<"p", "a", "u", "l">>,
   <<"p", "a", "u", "l", "a">>, <<"p", "e", "g", "g", "y">>,
   <<"p", "e", "n", "n", "y">>, <<"p", "e", "t", "e", "r">>,
   <<"p", "h", "i", "l", "i", "p">>, <<"p", "h", "i", "l", "l", "i", "p">>,
   <<"p", "h", "y", "l", "l", "i", "s">>, <<"r", "a", "c", "h", "e", "l">>,
   <<"r", "a", "l", "p", "h">>, <<"r", "a", "n", "d", "y">>,
   <<"r", "a", "y", "m", "o", "n", "d">>,
   <<"r", "e", "b", "e", "c", "c", "a">>, <<"r", "e", "g", "i", "n", "a">>,
   <<"r", "e", "n", "e", "e">>, <<"r", "h", "o", "n", "d", "a">>,
   <<"r", "i", "c", "h", "a", "r", "d">>, <<"r", "i", "c", "k">>,
   <<"r", "i", "t", "a">>, <<"r", "o", "b", "e", "r", "t">>,
   <<"r", "o", "b", "i", "n">>, <<"r", "o", "d", "n", "e", "y">>,
   <<"r", "o", "g", "e", "r">>, <<"r", "o", "l", "a", "n", "d">>,
   <<"r", "o", "n", "a", "l", "d">>, <<"r", "o", "s", "e">>,
   <<"r", "o", "s", "s">>, <<"r", "o", "x", "a", "n", "n", "e">>,
   <<"r", "o", "y">>, <<"r", "u", "b", "y">>,
   <<"r", "u", "s", "s", "e", "l", "l">>, <<"r", "u", "t", "h">>,
   <<"r", "y", "a", "n">>, <<"s", "a", "b", "r", "i", "n", "a">>,
   <<"s", "a", "l", "l", "y">>, <<"s", "a", "m", "a", "n", "t", "h", "a">>,
   <<"s", "a", "m", "u", "e", "l">>, <<"s", "a", "n", "d", "r", "a">>,
   <<"s", "a", "n", "d", "y">>, <<"s", "a", "r", "a">>,
   <<"s", "a", "r", "a", "h">>, <<"s", "c", "o", "t", "t">>,
   <<"s", "e", "a", "n">>, <<"s", "e", "t", "h">>,
   <<"s", "h", "a", "n", "e">>, <<"s", "h", "a", "n", "n", "o", "n">>,
   <<"s", "h", "a", "r", "o", "n">>, <<"s", "h", "e", "i", "l", "a">>,
   <<"s", "h", "e", "l", "l", "e", "y">>, <<"s", "h", "e", "r", "r", "y">>,
   <<"s", "h", "i", "r", "l", "e", "y">>, <<"s", "o", "p", "h", "i", "a">>,
   <<"s", "t", "a", "c", "e", "y">>, <<"s", "t", "a", "c", "y">>,
   <<"s", "t", "a", "n", "l", "e", "y">>,
   <<"s", "t", "e", "f", "a", "n", "i", "e">>,
   <<"s", "t", "e", "p", "h", "a", "n", "i", "e">>,
   <<"s", "t", "e", "p", "h", "e", "n">>, <<"s", "t", "e", "v", "e">>,
   <<"s", "t", "e", "v", "e", "n">>, <<"s", "t", "u", "a", "r", "t">>,
   <<"s", "u", "s", "a", "n">>, <<"s", "u", "z", "a", "n", "n", "e">>,
   <<"s", "y", "d", "n", "e", "y">>, <<"s", "y", "l", "v", "i", "a">>,
   <<"t", "a", "m", "a", "r", "a">>, <<"t", "a", "m", "m", "y">>,
   <<"t", "a", "n", "y", "a">>, <<"t", "a", "r", "a">>,
   <<"t", "a", "y", "l", "o", "r">>, <<"t", "e", "r", "e", "s", "a">>,
   <<"t", "e", "r", "r", "i">>, <<"t", "e", "r", "r", "y">>,
   <<"t", "h", "e", "l", "m", "a">>, <<"t", "h", "e", "r", "e", "s", "a">>,
   <<"t", "h", "o", "m", "a", "s">>, <<"t", "i", "f", "f", "a", "n", "y">>,
   <<"t", "i", "m", "o", "t", "h", "y">>, <<"t", "i", "n", "a">>,
   <<"t", "o", "d", "d">>, <<"t", "o", "m", "m", "y">>,
   <<"t", "o", "n", "y">>, <<"t", "r", "a", "c", "y">>,
   <<"t", "r", "a", "v", "i", "s">>, <<"t", "r", "e", "v", "o", "r">>,
   <<"t", "r", "o", "y">>, <<"t", "y", "l", "e", "r">>,
   <<"v", "a", "l", "e", "r", "i", "e">>,
   <<"v", "a", "n", "e", "s", "s", "a">>, <<"v", "e", "r", "n", "o", "n">>,
   <<"v", "e", "r", "o", "n", "i", "c", "a">>, <<"v", "i", "c", "k", "i">>,
   <<"v", "i", "c", "t", "o", "r", "i", "a">>,
   <<"v", "i", "n", "c", "e", "n", "t">>,
   <<"v", "i", "r", "g", "i", "n", "i", "a">>,
   <<"v", "i", "v", "i", "a", "n">>, <<"w", "a", "d", "e">>,
   <<"w", "a", "l", "t", "e", "r">>, <<"w", "a", "n", "d", "a">>,
   <<"w", "a", "r", "r", "e", "n">>, <<"w", "a", "y", "n", "e">>,
   <<"w", "e", "n", "d", "y">>, <<"w", "e", "s", "l", "e", "y">>,
   <<"w", "h", "i", "t", "n", "e", "y">>,
   <<"w", "i", "l", "l", "i", "a", "m">>, <<"w", "i", "l", "l", "i", "e">>,
   <<"y", "o", "l", "a", "n", "d", "a">>,
   <<"z", "a", "c", "h", "a", "r", "y">>
  }

GENERIC_LOCALS ==
  {
   <<"a", "b", "u", "s", "e">>, <<"a", "d", "m", "i", "n">>,
   <<"a", "l", "e", "r", "t", "s">>, <<"b", "i", "l", "l", "i", "n", "g">>,
   <<"c", "a", "r", "e", "e", "r", "s">>,
   <<"c", "h", "a", "i", "r", "m", "a", "n">>,
   <<"c", "o", "m", "m", "e", "n", "t", "s">>,
   <<"c", "o", "m", "p", "l", "i", "a", "n", "c", "e">>,
   <<"c", "o", "n", "g", "r", "e", "s", "s">>,
   <<"c", "o", "n", "t", "a", "c", "t">>,
   <<"c", "o", "u", "n", "s", "e", "l">>,
   <<"d", "i", "r", "e", "c", "t", "o", "r">>,
   <<"e", "d", "i", "t", "o", "r">>, <<"e", "v", "e", "n", "t", "s">>,
   <<"f", "e", "e", "d", "b", "a", "c", "k">>,
   <<"g", "e", "n", "e", "r", "a", "l">>, <<"h", "e", "l", "l", "o">>,
   <<"h", "e", "l", "p">>, <<"h", "r">>, <<"i", "n", "f", "o">>,
   <<"i", "n", "q", "u", "i", "r", "i", "e", "s">>,
   <<"i", "n", "t", "e", "r", "n">>, <<"j", "o", "b", "s">>,
   <<"l", "e", "g", "a", "l">>, <<"m", "a", "i", "l">>,
   <<"m", "a", "r", "k", "e", "t", "i", "n", "g">>,
   <<"m", "e", "d", "i", "a">>,
   <<"m", "e", "m", "b", "e", "r", "s", "h", "i", "p">>,
   <<"n", "e", "w", "s">>, <<"n", "o", "r", "e", "p", "l", "y">>,
   <<"o", "f", "f", "i", "c", "e">>,
   <<"o", "p", "e", "r", "a", "t", "i", "o", "n", "s">>,
   <<"o", "r", "d", "e", "r", "s">>,
   <<"p", "l", "a", "n", "n", "i", "n", "g">>,
   <<"p", "o", "s", "t", "m", "a", "s", "t", "e", "r">>,
   <<"p", "r", "e", "s", "s">>, <<"p", "r", "o", "g", "r", "a", "m">>,
   <<"r", "e", "c", "o", "r", "d", "s">>,
   <<"r", "e", "g", "u", "l", "a", "t", "i", "o", "n">>,
   <<"r", "e", "q", "u", "e", "s", "t", "s">>, <<"r", "o", "o", "t">>,
   <<"s", "a", "l", "e", "s">>,
   <<"s", "c", "h", "e", "d", "u", "l", "i", "n", "g">>,
   <<"s", "e", "c", "u", "r", "i", "t", "y">>,
   <<"s", "e", "r", "v", "i", "c", "e">>,
   <<"s", "u", "p", "p", "o", "r", "t">>, <<"t", "e", "a", "m">>,
   <<"u", "p", "d", "a", "t", "e", "s">>,
   <<"w", "e", "b", "m", "a", "s", "t", "e", "r">>
  }

COMMON_ENGLISH_WORDS ==
  {
   <<"a", "l", "e", "r", "t", "s">>,
   <<"c", "h", "a", "i", "r", "m", "a", "n">>,
   <<"c", "o", "m", "m", "e", "n", "t", "s">>,
   <<"c", "o", "n", "g", "r", "e", "s", "s">>,
   <<"c", "o", "u", "n", "s", "e", "l">>,
   <<"d", "i", "r", "e", "c", "t", "o", "r">>,
   <<"e", "d", "i", "t", "o", "r">>,
   <<"e", "x", "e", "c", "u", "t", "i", "v", "e">>,
   <<"g", "o", "v", "e", "r", "n", "o", "r">>,
   <<"i", "n", "t", "e", "r", "n">>, <<"m", "a", "n", "a", "g", "e", "r">>,
   <<"o", "p", "e", "r", "a", "t", "i", "o", "n", "s">>,
   <<"o", "r", "d", "e", "r", "s">>,
   <<"p", "l", "a", "n", "n", "i", "n", "g">>,
   <<"p", "r", "e", "s", "i", "d", "e", "n", "t">>,
   <<"p", "r", "e", "s", "s">>, <<"p", "r", "o", "g", "r", "a", "m">>,
   <<"r", "e", "c", "o", "r", "d", "s">>,
   <<"r", "e", "g", "u", "l", "a", "t", "i", "o", "n">>,
   <<"r", "e", "g", "u", "l", "a", "t", "o", "r", "y">>,
   <<"r", "e", "p", "r", "e", "s", "e", "n", "t", "a", "t", "i", "v", "e">>,
   <<"r", "e", "q", "u", "e", "s", "t", "s">>,
   <<"s", "c", "h", "e", "d", "u", "l", "i", "n", "g">>,
   <<"s", "e", "c", "r", "e", "t", "a", "r", "y">>,
   <<"s", "e", "n", "a", "t", "o", "r">>,
   <<"t", "r", "e", "a", "s", "u", "r", "e", "r">>,
   <<"u", "p", "d", "a", "t", "e", "s">>
  }

\* dict lookup in a table of <<key, value>> pairs
InTable(tbl, k) == \E i \in 1..Len(tbl) : tbl[i][1] = k

Lookup(tbl, k) == tbl[CHOOSE i \in 1..Len(tbl) : tbl[i][1] = k][2]

(***************************************************************************)
(* String kernels                                                          *)
(***************************************************************************)

\* curr[j] for j = 1..len(t), left to right, from the previous row.
\* Rows are 1-based here: row[j + 1] is the source's row[j].
RECURSIVE LevRow(_, _, _, _)
LevRow(sc, t, prev, curr) ==
  LET j == Len(curr)
  IN  IF j > Len(t) THEN curr
      ELSE LET cost == IF sc = t[j] THEN 0 ELSE 1
               v == Min2(Min2(curr[j] + 1, prev[j + 1] + 1), prev[j] + cost)
           IN  LevRow(sc, t, prev, Append(curr, v))

\* The outer loop: row i is complete (all len(t) + 1 cells) before row
\* i + 1 is started from it.
RECURSIVE LevRows(_, _, _, _)
LevRows(s, t, i, prev) ==
  IF i > Len(s) \/ Len(prev) # Len(t) + 1 THEN prev
  ELSE LevRows(s, t, i + 1, LevRow(s[i], t, prev, <<i>>))

\* A faulty distance: an empty string is at distance 0 from every string.
LevenshteinEmptyZero(s, t) ==
  IF s = t \/ s = << >> \/ t = << >> THEN 0
  ELSE LevRows(s, t, 1, [j \in 1..(Len(t) + 1) |-> j - 1])[Len(t) + 1]

levenshtein(s, t) ==
  IF s = t THEN 0
  ELSE IF s = << >> THEN Len(t)
  ELSE IF t = << >> THEN Len(s)
  ELSE LevRows(s, t, 1, [j \in 1..(Len(t) + 1) |-> j - 1])[Len(t) + 1]

\* The matching pass of jaro_winkler: for each i the first unmatched j in
\* the window with s1[i] = s2[j].  Returns <<matched i's, matched j's>>.
RECURSIVE JaroMatch(_, _, _, _, _, _)
JaroMatch(s1, s2, max_dist, i, m1, m2) ==
  IF i > Len(s1) THEN <<m1, m2>>
  ELSE LET lo == Max2(1, i - max_dist)
           hi == Min2(Len(s2), i + max_dist)
           cand == {j \in lo..hi : j \notin m2 /\ s1[i] = s2[j]}
       IN  IF cand = {} THEN JaroMatch(s1, s2, max_dist, i + 1, m1, m2)
           ELSE LET j == CHOOSE x \in cand : \A y \in cand : x <= y
                IN  JaroMatch(s1, s2, max_dist, i + 1,
                              m1 \cup {i}, m2 \cup {j})

\* The k-th smallest element of a set of naturals.
RECURSIVE Nth(_, _)
Nth(S, k) ==
  LET m == CHOOSE x \in S : \A y \in S : x <= y
  IN  IF k = 1 THEN m ELSE Nth(S \ {m}, k - 1)

\* jaro_winkler as an exact fraction <<numerator, denominator>>:
\*   jaro = (m/|s1| + m/|s2| + (m - t/2)/m) / 3
\*   jw   = jaro + prefix * 0.1 * (1 - jaro)
jaro_winkler(s1, s2) ==
  IF s1 = s2 THEN <<1, 1>>
  ELSE IF s1 = << >> \/ s2 = << >> THEN <<0, 1>>
  ELSE
    LET half == Max2(Len(s1), Len(s2)) \div 2 - 1
        max_dist == IF half < 0 THEN 0 ELSE half
        mm == JaroMatch(s1, s2, max_dist, 1, {}, {})
        matches == Cardinality(mm[1])
        transpositions ==
          Cardinality({k \in 1..matches :
                         s1[Nth(mm[1], k)] # s2[Nth(mm[2], k)]})
        l1 == Len(s1)
        l2 == Len(s2)
        D == 6 * l1 * l2 * matches
        N == 2 * matches * matches * l2 + 2 * matches * matches * l1
             + (2 * matches - transpositions) * l1 * l2
        RECURSIVE Prefix(_)
        Prefix(i) ==
          IF i > Min2(4, Min2(l1, l2)) THEN 0
          ELSE IF s1[i] = s2[i] THEN 1 + Prefix(i + 1) ELSE 0
        prefix == Prefix(1)
    IN  IF matches = 0 THEN <<0, 1>>
        ELSE <<10 * N + prefix * (D - N), 10 * D>>

\* jaro_winkler(a, b) < num/den
JWBelow(a, b, num, den) ==
  LET jw == jaro_winkler(a, b) IN jw[1] * den < num * jw[2]

(***************************************************************************)
(* Layer 1: structural cleanup                                             *)
(***************************************************************************)

Space == {" "}

MailtoColon == {"i", "1", "l", ":", ";", "c"}

MailtoStray == {"r", "f", "n", "c"}

MailtoIl1 == {"i", "l", "1"}

Lit(s) == [i \in 1..Len(s) |-> {s[i]}]

\* `[rfnc]?` in front of a pattern: with the stray character first (the
\* greedy branch), then without it.
OptStray(p) == << <<MailtoStray>> \o p, p >>

\* MAILTO_RE's alternatives in order, each a sequence of character classes;
\* the trailing \s* is applied by MailtoStrip.
MAILTO_ALTS ==
  OptStray(Lit(<<"m", "a", "i", "l", "t", "o">>) \o <<MailtoColon>>)
  \o OptStray(Lit(<<"r", "n", "a", "i", "l", "t", "o">>) \o <<MailtoColon>>)
  \o OptStray(Lit(<<"r", "n", "a", "i">>) \o <<MailtoIl1>>
              \o Lit(<<"t", "o">>) \o <<MailtoColon>>)
  \o OptStray(Lit(<<"m", "a", "i">>) \o <<MailtoIl1>>
              \o Lit(<<"t", "o">>) \o <<MailtoColon>>)
  \o << Lit(<<"m", "a", "i", "l", ".", "t", "o">>) \o <<MailtoColon>> >>
  \o OptStray(Lit(<<"m", "a", "i", "l", "t", "c", "r">>))
  \o OptStray(Lit(<<"m", "a", "i">>) \o <<MailtoIl1>>
              \o Lit(<<"s", "t", "o">>) \o <<MailtoColon>>)
  \o << <<{"1", "l"}>> \o Lit(<<"t", "o">>) \o <<MailtoColon>> >>

MatchesAt(s, p) == Len(p) <= Len(s) /\ \A i \in 1..Len(p) : s[i] \in p[i]

\* The first of the alternatives that matches at the start of s, 0 if none.
FirstAlt(s, alts) ==
  IF \E k \in 1..Len(alts) : MatchesAt(s, alts[k])
  THEN CHOOSE x \in 1..Len(alts) :
         /\ MatchesAt(s, alts[x])
         /\ \A y \in 1..(x - 1) : ~MatchesAt(s, alts[y])
  ELSE 0

StripAlt(s, alts, k) ==
  IF k = 0 THEN s ELSE LStrip(Drop(s, Len(alts[k])), Space)

\* MAILTO_RE.sub('', email): the pattern is anchored, so at most the one
\* match at the start is removed, with the whitespace that follows it.
MailtoStrip(s) == StripAlt(s, MAILTO_ALTS, FirstAlt(s, MAILTO_ALTS))

\* while '..' in s: s = s.replace('..', '.')
RECURSIVE CollapseDots(_)
CollapseDots(s) ==
  IF Contains(s, <<".", ".">>)
  THEN CollapseDots(Replace(s, <<".", ".">>, <<".">>))
  ELSE s

CleanedLocal(email) ==
  CollapseDots(Replace(Strip(LocalOf(email), {"."}), <<"-">>, <<".">>))

CleanedDomain(email) == Strip(CollapseDots(DomainOf(email)), {".", "-"})

\* if local and domain: email = f"{local}@{domain}"
Rejoined(email, local, domain) ==
  IF local # << >> /\ domain # << >> THEN MkEmail(local, domain) ELSE email

\* EMAIL_FIXES.get(result, result)
FixedEmail(result, fixes) ==
  IF InTable(fixes, result) THEN Lookup(fixes, result) ELSE result

\* The part of structural_cleanup after the mailto: prefix and the angle
\* brackets are gone.
CleanStripped(email) ==
  IF ~HasAt(email) THEN email
  ELSE FixedEmail(Rejoined(email, CleanedLocal(email), CleanedDomain(email)),
                  EMAIL_FIXES)

structural_cleanup(email0) ==
  CleanStripped(
    Strip(Strip(MailtoStrip(Lower(Strip(email0, Space))), {"<", ">"}), Space))

(***************************************************************************)
(* Layer 2: domain normalization                                           *)
(***************************************************************************)

Dot == <<".">>

GOV == <<".", "g", "o", "v">>

EPA == <<"e", "p", "a">>

EPA_GOV == <<"e", "p", "a", ".", "g", "o", "v">>

IEPA_GOV == <<"i", "e", "p", "a", ".", "g", "o", "v">>

CALEPA_CA_GOV ==
  <<"c", "a", "l", "e", "p", "a", ".", "c", "a", ".", "g", "o", "v">>

\* s with the character at position i removed
RemoveAt(s, i) == SubSeq(s, 1, i - 1) \o Drop(s, i)

_is_likely_epa(domain) ==
  IF ~EndsWith(domain, GOV) THEN FALSE
  ELSE LET host == SubSeq(domain, 1, Len(domain) - 4)
       IN  IF host = << >> THEN FALSE
           ELSE IF Len(host) = 3 THEN levenshtein(host, EPA) <= 1
           ELSE IF Len(host) = 4
                THEN \E i \in 1..4 : levenshtein(RemoveAt(host, i), EPA) <= 1
           ELSE FALSE

\* The dot-collapse of a split TLD.
DotCollapse(domain) ==
  LET parts == SplitOn(domain, {"."})
      n == Len(parts)
  IN  IF n < 3 THEN domain
      ELSE
        LET last_two == parts[n - 1] \o parts[n]
        IN  IF Len(parts[n - 1]) <= 2 /\ Len(parts[n]) <= 3
               /\ Len(last_two) <= 4
            THEN Join(SubSeq(parts, 1, n - 2), Dot) \o Dot \o last_two
            ELSE IF n >= 4 /\ \A k \in (n - 2)..n : Len(parts[k]) <= 2
            THEN LET joined == parts[n - 2] \o parts[n - 1] \o parts[n]
                 IN  IF Len(joined) <= 5
                     THEN Join(SubSeq(parts, 1, n - 3), Dot) \o Dot \o joined
                     ELSE domain
            ELSE domain

GovTails == {"l", "1", "j", "i"}

HTML == <<"h", "t", "m", "l">>

MIL == <<"m", "i", "l">>

\* The steps of one pass of the suffix-fix loop, each from and to
\* <<domain, changed>>.  First a stray character after ".gov" is cut.
GovTailFix(d) ==
  IF \E c \in GovTails : EndsWith(d, GOV \o <<c>>)
  THEN <<SubSeq(d, 1, Len(d) - 1), TRUE>>
  ELSE <<d, FALSE>>

\* The first entry of the suffix list that the domain ends with, 0 if none.
FirstBadSuffix(d) ==
  IF \E k \in 1..Len(BAD_SUFFIXES) : EndsWith(d, BAD_SUFFIXES[k][1])
  THEN CHOOSE x \in 1..Len(BAD_SUFFIXES) :
         /\ EndsWith(d, BAD_SUFFIXES[x][1])
         /\ \A y \in 1..(x - 1) : ~EndsWith(d, BAD_SUFFIXES[y][1])
  ELSE 0

ReplaceSuffix(d, k) ==
  SubSeq(d, 1, Len(d) - Len(BAD_SUFFIXES[k][1])) \o BAD_SUFFIXES[k][2]

BadSuffixFix(r) ==
  IF FirstBadSuffix(r[1]) # 0
  THEN <<ReplaceSuffix(r[1], FirstBadSuffix(r[1])), TRUE>>
  ELSE r

LastOf(seq) == seq[Len(seq)]

\* ".go" at the end of a short host label gets its "v".
GoFix(r) ==
  IF /\ ~r[2]
     /\ EndsWith(r[1], <<".", "g", "o">>)
     /\ Len(r[1]) > 3
     /\ Len(LastOf(SplitOn(SubSeq(r[1], 1, Len(r[1]) - 3), {"."}))) <= 5
  THEN <<r[1] \o <<"v">>, TRUE>>
  ELSE r

TldOf(d) == LastOf(SplitOn(d, {"."}))

\* A stray l, 1 or j at the end of the TLD is cut.
TailFix(r) ==
  IF /\ ~r[2]
     /\ Len(r[1]) > 4
     /\ TldOf(r[1]) # << >>
     /\ LastOf(r[1]) \in {"l", "1", "j"}
     /\ TldOf(r[1]) \notin {HTML, MIL}
  THEN <<SubSeq(r[1], 1, Len(r[1]) - 1), TRUE>>
  ELSE r

SuffixPass(domain0) == TailFix(GoFix(BadSuffixFix(GovTailFix(domain0))))

SuffixPasses == 3

\* for _ in range(3): ... if not changed: break
RECURSIVE SuffixFix(_, _)
SuffixFix(domain, n) ==
  IF n = 0 THEN domain
  ELSE LET r == SuffixPass(domain)
       IN  IF r[2] THEN SuffixFix(r[1], n - 1) ELSE r[1]

\* part.replace(err, fix) for every entry of the map, in the map's order
RECURSIVE ApplyCharMap(_, _, _)
ApplyCharMap(s, map, k) ==
  IF k > Len(map) THEN s
  ELSE ApplyCharMap(Replace(s, map[k][1], map[k][2]), map, k + 1)

\* The OCR map on every label except the TLD.
OcrHostLabels(domain) ==
  LET parts == SplitOn(domain, {"."})
      n == Len(parts)
  IN  IF n < 2 THEN domain
      ELSE Join([i \in 1..n |->
                   IF i < n THEN ApplyCharMap(parts[i], DOMAIN_OCR_CHAR_MAP, 1)
                   ELSE parts[i]], Dot)

\* The stages of normalize_domain, each handing on what it made.
NormalizeOcrFixed(d3) ==
  IF d3 \in EPA_ERROR_DOMAINS THEN EPA_GOV
  ELSE IF InTable(DOMAIN_FIXES, d3) THEN Lookup(DOMAIN_FIXES, d3)
  ELSE IF _is_likely_epa(d3) THEN EPA_GOV
  ELSE d3

NormalizeSuffixFixed(d2) ==
  IF d2 \in EPA_ERROR_DOMAINS THEN EPA_GOV
  ELSE IF InTable(DOMAIN_FIXES, d2) THEN Lookup(DOMAIN_FIXES, d2)
  ELSE NormalizeOcrFixed(OcrHostLabels(d2))

NormalizeCollapsed(d1) ==
  IF d1 \in EPA_ERROR_DOMAINS THEN EPA_GOV
  ELSE NormalizeSuffixFixed(SuffixFix(d1, SuffixPasses))

NormalizeCleaned(d0) ==
  IF d0 \in EPA_ERROR_DOMAINS THEN EPA_GOV
  ELSE IF d0 = IEPA_GOV \/ d0 = CALEPA_CA_GOV THEN d0
  ELSE IF InTable(DOMAIN_FIXES, d0) THEN Lookup(DOMAIN_FIXES, d0)
  ELSE NormalizeCollapsed(DotCollapse(d0))

normalize_domain(domain0) ==
  NormalizeCleaned(Replace(Strip(Lower(domain0), {".", "-"}), <<" ">>, << >>))

apply_domain_normalization(email) ==
  IF ~HasAt(email) THEN email
  ELSE MkEmail(LocalOf(email), normalize_domain(DomainOf(email)))

(***************************************************************************)
(* Layer 3: local-part OCR normalization                                   *)
(***************************************************************************)

NameDelims == {".", "_", "-"}

LongerThan1(p) == Len(p) > 1

NonEmpty(p) == p # << >>

\* [p for p in re.split(r'[._\-]', local) if len(p) > 1]
NameParts(local) == SelectSeq(SplitOn(local, NameDelims), LongerThan1)

\* sorted(LOCAL_OCR_CHAR_MAP.items(), key=lambda x: -len(x[0])): a stable
\* sort, so entries of equal length keep the map's order.
LocalOcrOrder ==
  LET OfLen(n) ==
        LET Has(e) == Len(e[1]) = n IN SelectSeq(LOCAL_OCR_CHAR_MAP, Has)
  IN  OfLen(3) \o OfLen(2) \o OfLen(1)

ocr_normalize_local(local) == ApplyCharMap(local, LocalOcrOrder, 1)

canonicalize_local(local) ==
  LET parts == NameParts(local)
  IN  IF Len(parts) >= 2 THEN Join(SortStrs(parts), Dot) ELSE local

\* A faulty Layer 3: a string without '@' is normalized as a local part.
LocalOcrUnguarded(email) ==
  IF ~HasAt(email) THEN canonicalize_local(ocr_normalize_local(email))
  ELSE MkEmail(canonicalize_local(ocr_normalize_local(LocalOf(email))),
               DomainOf(email))

apply_local_ocr_normalization(email) ==
  IF ~HasAt(email) THEN email
  ELSE MkEmail(canonicalize_local(ocr_normalize_local(LocalOf(email))),
               DomainOf(email))

(***************************************************************************)
(* Nodes and the working map                                               *)
(***************************************************************************)

\* node.get(field, default): an input node may lack optional fields.
Get(node, field, default) ==
  IF field \in DOMAIN node THEN node[field] ELSE default

\* set(alias_map.values())
Canons(alias_map) == {alias_map[i] : i \in DOMAIN alias_map}

\* canonical_to_originals[canon]
OriginalsOf(alias_map, canon) == {i \in DOMAIN alias_map : alias_map[i] = canon}

RECURSIVE SumCount(_, _, _)
SumCount(ids, nodes_by_id, default) ==
  IF ids = {} THEN 0
  ELSE LET i == CHOOSE x \in ids : TRUE
       IN  Get(nodes_by_id[i], "count", default)
           + SumCount(ids \ {i}, nodes_by_id, default)

_total_count_for_canonical(canon, alias_map, nodes_by_id) ==
  SumCount(OriginalsOf(alias_map, canon), nodes_by_id, 0)

\* The canonicals on one domain.
CanonsOn(alias_map, domain) ==
  {c \in Canons(alias_map) : HasAt(c) /\ DomainOf(c) = domain}

DomainsOf(alias_map) == {DomainOf(c) : c \in {x \in Canons(alias_map) : HasAt(x)}}

\* tuple(sorted(parts)) of a canonical's local part
PartsKey(canon) == SortStrs(NameParts(LocalOf(canon)))

\* two_part[domain]: the canonicals of the domain with exactly two name
\* parts, looked up by their sorted parts.  A canonical is a Layer 3 result,
\* so its local part is its sorted parts joined by dots and a key names at
\* most one canonical.
TwoPart(alias_map, domain) ==
  {c \in CanonsOn(alias_map, domain) : Len(NameParts(LocalOf(c))) = 2}

HasKey(known, key) == \E c \in known : PartsKey(c) = key

AtKey(known, key) == CHOOSE c \in known : PartsKey(c) = key

(***************************************************************************)
(* Layer 3b: join split local parts                                        *)
(***************************************************************************)

\* The candidate (left, right) joins of the unsorted parts.
JoinCandidates(orig_parts) ==
  IF Len(orig_parts) = 3
  THEN LET a == orig_parts[1]
           b == orig_parts[2]
           c == orig_parts[3]
       IN  << <<a \o b, c>>, <<b \o a, c>>, <<a \o c, b>>,
              <<c \o a, b>>, <<b \o c, a>>, <<c \o b, a>> >>
  ELSE [split \in 1..(Len(orig_parts) - 1) |->
          << Join(SubSeq(orig_parts, 1, split), << >>),
             Join(SubSeq(orig_parts, split + 1, Len(orig_parts)), << >>) >>]

\* known[key] when the key is known and names another canonical than
\* `canon`, else << >>.
KeyMatch(known, key, canon) ==
  IF HasKey(known, key) /\ AtKey(known, key) # canon
  THEN AtKey(known, key)
  ELSE << >>

FirstNonEmpty(a, b) == IF a # << >> THEN a ELSE b

\* What one candidate (left, right) gives: the key of the OCR-normalized
\* halves is tried before the key of the halves as they are.
CandidateMatch(cand, known, canon) ==
  IF Len(cand[1]) < 2 \/ Len(cand[2]) < 2 THEN << >>
  ELSE FirstNonEmpty(
         KeyMatch(known,
                  SortStrs(<<ocr_normalize_local(cand[1]),
                             ocr_normalize_local(cand[2])>>),
                  canon),
         KeyMatch(known, SortStrs(cand), canon))

\* The first entry of a list of matches that is one: << >> when there is
\* none (best_match = None).
FirstMatch(matches) ==
  IF \A k \in 1..Len(matches) : matches[k] = << >> THEN << >>
  ELSE matches[CHOOSE k \in 1..Len(matches) :
                 /\ matches[k] # << >>
                 /\ \A j \in 1..(k - 1) : matches[j] = << >>]

FirstJoinMatch(cands, known, canon) ==
  FirstMatch([k \in 1..Len(cands) |-> CandidateMatch(cands[k], known, canon)])

JoinParts(known, canon, orig_parts) ==
  IF Len(orig_parts) < 3 THEN << >>
  ELSE FirstJoinMatch(JoinCandidates(orig_parts), known, canon)

\* `cleaned` is the original id after structural cleanup and domain
\* normalization, with its parts in the order in which they were written.
JoinCleaned(known, canon, cleaned) ==
  IF known = {} \/ ~HasAt(cleaned) THEN << >>
  ELSE JoinParts(known, canon, NameParts(LocalOf(cleaned)))

\* The target of `canon` when `orig_id` is the first original id of that
\* canonical met by the loop, << >> when it is not merged.
JoinTarget(alias_map, canon, orig_id) ==
  IF ~HasAt(canon) THEN << >>
  ELSE JoinCleaned(TwoPart(alias_map, DomainOf(canon)), canon,
                   apply_domain_normalization(structural_cleanup(orig_id)))

\* A merge delta: the function from each merged canonical to its target,
\* made of the function that gives << >> for a canonical that stays.
DeltaOf(targets) ==
  [c \in {x \in DOMAIN targets : targets[x] # << >>} |-> targets[c]]

\* `first` gives, for each canonical, the original id the loop over the
\* set all_original_ids meets first.
join_split_local_matches(alias_map, first) ==
  DeltaOf([c \in Canons(alias_map) |-> JoinTarget(alias_map, c, first[c])])

\* The choices of `first` the iteration order of all_original_ids allows.
FirstChoices(alias_map) ==
  {f \in [Canons(alias_map) -> DOMAIN alias_map] :
     \A c \in Canons(alias_map) : alias_map[f[c]] = c}

(***************************************************************************)
(* Layer 3c: prefix stripping                                              *)
(***************************************************************************)

\* domain_name_parts[domain]
KnownParts(alias_map, domain) ==
  UNION {SeqToSet(NameParts(LocalOf(c))) : c \in TwoPart(alias_map, domain)}

\* parts[:i] + [stripped] + parts[i+1:], short parts dropped
Substituted(parts, i, stripped) ==
  SelectSeq([k \in 1..Len(parts) |-> IF k = i THEN stripped ELSE parts[k]],
            LongerThan1)

\* Whether replacing part i by the known name gives a known two-part
\* canonical other than `canon`; ends = TRUE for the ends-with scan.
StripHit(parts, i, known_p, ends, known, canon) ==
  /\ Len(known_p) >= 3
  /\ IF ends THEN EndsWith(parts[i], known_p) ELSE StartsWith(parts[i], known_p)
  /\ Len(parts[i]) > Len(known_p)
  /\ LET remaining == Substituted(parts, i, known_p)
     IN  /\ Len(remaining) = 2
         /\ HasKey(known, SortStrs(remaining))
         /\ AtKey(known, SortStrs(remaining)) # canon

\* The first known part, in the iteration order `order` of known_parts,
\* that hits: 0 when none does.
FirstHit(parts, i, order, ends, known, canon) ==
  LET hits == {k \in 1..Len(order) :
                 StripHit(parts, i, order[k], ends, known, canon)}
  IN  IF hits = {} THEN 0 ELSE CHOOSE k \in hits : \A j \in hits : k <= j

RECURSIVE StripScan(_, _, _, _, _)
StripScan(parts, i, order, known, canon) ==
  IF i > Len(parts) THEN << >>
  ELSE
    LET e == FirstHit(parts, i, order, TRUE, known, canon)
        s == FirstHit(parts, i, order, FALSE, known, canon)
    IN  IF e # 0
        THEN AtKey(known, SortStrs(Substituted(parts, i, order[e])))
        ELSE IF s # 0
        THEN AtKey(known, SortStrs(Substituted(parts, i, order[s])))
        ELSE StripScan(parts, i + 1, order, known, canon)

StripTarget(alias_map, canon, orders) ==
  IF ~HasAt(canon) THEN << >>
  ELSE
    LET domain == DomainOf(canon)
        parts == SelectSeq(SplitOn(LocalOf(canon), NameDelims), NonEmpty)
    IN  IF KnownParts(alias_map, domain) = {} \/ Len(parts) < 2 THEN << >>
        ELSE StripScan(parts, 1, orders[domain],
                       TwoPart(alias_map, domain), canon)

\* `orders` gives the iteration order of each domain's set known_parts.
prefix_strip_matches(alias_map, orders) ==
  DeltaOf([c \in Canons(alias_map) |-> StripTarget(alias_map, c, orders)])

\* All iteration orders of a set, as sequences.
RECURSIVE Perms(_)
Perms(S) ==
  IF S = {} THEN {<< >>}
  ELSE UNION {{<<x>> \o p : p \in Perms(S \ {x})} : x \in S}

\* A known part shorter than three characters is skipped wherever it stands
\* in the iteration, so the order of the others is the one that matters.
ScannedParts(alias_map, domain) ==
  {p \in KnownParts(alias_map, domain) : Len(p) >= 3}

KnownOrders(alias_map) ==
  LET doms == DomainsOf(alias_map)
  IN  {f \in [doms -> UNION {Perms(ScannedParts(alias_map, d)) : d \in doms}] :
         \A d \in doms : f[d] \in Perms(ScannedParts(alias_map, d))}

(***************************************************************************)
(* Union-Find                                                              *)
(***************************************************************************)

\* _UnionFind.__init__
UFEmpty == [parent |-> << >>, rank |-> << >>, weight |-> << >>]

UFAdd(uf, x, count) ==
  IF x \in DOMAIN uf.parent THEN uf
  ELSE [parent |-> uf.parent @@ (x :> x),
        rank |-> uf.rank @@ (x :> 0),
        weight |-> uf.weight @@ (x :> count)]

\* The value find(x) returns.
RECURSIVE UFRoot(_, _)
UFRoot(uf, x) == IF uf.parent[x] = x THEN x ELSE UFRoot(uf, uf.parent[x])

\* The elements find(x) visits before the root.
RECURSIVE UFPath(_, _)
UFPath(uf, x) ==
  IF uf.parent[x] = x THEN {} ELSE {x} \cup UFPath(uf, uf.parent[x])

\* A faulty find(x): the element asked for ends up pointing at itself.
UFFindDetach(uf, x) == [uf EXCEPT !.parent[x] = x]

\* The structure after find(x): every visited element points at the root.
UFFind(uf, x) ==
  LET root == UFRoot(uf, x)
      path == UFPath(uf, x)
  IN  [uf EXCEPT !.parent =
         [y \in DOMAIN uf.parent |-> IF y \in path THEN root ELSE uf.parent[y]]]

\* A faulty union(a, b): the weight of the surviving root is the max of the
\* two only when the ranks tie.
UFUnionTieOnly(uf0, a, b) ==
  LET uf == UFFind(UFFind(uf0, a), b)
      fa == UFRoot(uf0, a)
      fb == UFRoot(uf0, b)
      swap == uf.rank[fa] < uf.rank[fb]
      ra == IF swap THEN fb ELSE fa
      rb == IF swap THEN fa ELSE fb
  IN  IF fa = fb THEN uf
      ELSE [parent |-> [uf.parent EXCEPT ![rb] = ra],
            rank |-> IF uf.rank[ra] = uf.rank[rb]
                     THEN [uf.rank EXCEPT ![ra] = @ + 1]
                     ELSE uf.rank,
            weight |-> IF uf.rank[ra] = uf.rank[rb]
                       THEN [uf.weight EXCEPT
                               ![ra] = Max2(uf.weight[ra], uf.weight[rb])]
                       ELSE uf.weight]

\* union(a, b)
UFUnion(uf0, a, b) ==
  LET uf == UFFind(UFFind(uf0, a), b)
      fa == UFRoot(uf0, a)
      fb == UFRoot(uf0, b)
      swap == uf.rank[fa] < uf.rank[fb]
      ra == IF swap THEN fb ELSE fa
      rb == IF swap THEN fa ELSE fb
  IN  IF fa = fb THEN uf
      ELSE [parent |-> [uf.parent EXCEPT ![rb] = ra],
            rank |-> IF uf.rank[ra] = uf.rank[rb]
                     THEN [uf.rank EXCEPT ![ra] = @ + 1]
                     ELSE uf.rank,
            weight |-> [uf.weight EXCEPT
                          ![ra] = Max2(uf.weight[ra], uf.weight[rb])]]

\* groups(): representative -> set of members
UFGroups(uf) ==
  [r \in {UFRoot(uf, x) : x \in DOMAIN uf.parent} |->
     {x \in DOMAIN uf.parent : UFRoot(uf, x) = r}]

\* The member sets of groups().values()
UFGroupSets(uf) == {UFGroups(uf)[r] : r \in DOMAIN UFGroups(uf)}

\* The pairwise loop `for i: for j > i` over the list `entries`: a pair in
\* `reached` gets both its elements found; when they are in different sets
\* and the pair is in `accepted`, they are unioned.
RECURSIVE UnionPairs(_, _, _, _, _, _)
UnionPairs(uf, entries, i, j, reached, accepted) ==
  IF i > Len(entries) THEN uf
  ELSE IF j > Len(entries)
  THEN UnionPairs(uf, entries, i + 1, i + 2, reached, accepted)
  ELSE
    LET found == UFFind(UFFind(uf, entries[i]), entries[j])
        same == UFRoot(uf, entries[i]) = UFRoot(uf, entries[j])
        next == IF <<i, j>> \notin reached THEN uf
                ELSE IF ~same /\ <<i, j>> \in accepted
                THEN UFUnion(found, entries[i], entries[j])
                ELSE found
    IN  UnionPairs(next, entries, i, j + 1, reached, accepted)

(***************************************************************************)
(* Display names of canonicals                                             *)
(***************************************************************************)

\* name.split()
Words(name) == SelectSeq(SplitOn(name, Space), NonEmpty)

IsLetter(c) == c \in LowerLetters \/ c \in UpperLetters

\* str.title(): a letter is upper-cased after a non-letter, else lowered
Title(s) ==
  [i \in 1..Len(s) |->
     IF ~IsLetter(s[i]) THEN s[i]
     ELSE IF i = 1 \/ ~IsLetter(s[i - 1]) THEN UpperChar(s[i])
     ELSE LowerChar(s[i])]

B2N(b) == IF b THEN 1 ELSE 0

\* How many of the patterns occur in s.
CountIn(pats, s) == Cardinality({k \in 1..Len(pats) : Contains(s, pats[k])})

CanonicalNamePenalties ==
  << <<"r", "n">>, <<"i", "i">>, <<"f", "f", "l">>, <<"f", "f", "i">>,
     <<"0">>, <<"1">>, <<"3">> >>

\* Lexicographic order on tuples of integers.
RECURSIVE TupleLess(_, _)
TupleLess(a, b) ==
  IF a = << >> THEN FALSE
  ELSE IF Head(a) # Head(b) THEN Head(a) < Head(b)
  ELSE TupleLess(Tail(a), Tail(b))

\* name_counts of a set of nodes: name -> summed node.get("count", 1)
NamesOf(ids, nodes_by_id) ==
  {Get(nodes_by_id[i], "name", << >>) : i \in ids} \ {<< >>}

NameCount(name, ids, nodes_by_id) ==
  SumCount({i \in ids : Get(nodes_by_id[i], "name", << >>) = name},
           nodes_by_id, 1)

_best_name_for_canonical(canon, alias_map, nodes_by_id) ==
  LET ids == OriginalsOf(alias_map, canon)
      names == NamesOf(ids, nodes_by_id)
      score(name) ==
        << B2N(Len(Words(name)) >= 2),
           B2N(name = Title(name)),
           0 - CountIn(CanonicalNamePenalties, Lower(name)),
           NameCount(name, ids, nodes_by_id) >>
      Less(a, b) ==
        \/ TupleLess(score(a), score(b))
        \/ score(a) = score(b) /\ StrLess(a, b)
  IN  IF names = {} THEN << >>
      ELSE CHOOSE n \in names : \A m \in names : m = n \/ Less(m, n)

(***************************************************************************)
(* Layer 4: fuzzy edit-distance matching                                   *)
(***************************************************************************)

\* Sorting canonicals by (len(local), local).
LenLocalLeq(c1, c2) ==
  LET l1 == LocalOf(c1)
      l2 == LocalOf(c2)
  IN  Len(l1) < Len(l2) \/ (Len(l1) = Len(l2) /\ StrLeq(l1, l2))

RECURSIVE SortByLenLocal(_)
SortByLenLocal(S) ==
  IF S = {} THEN << >>
  ELSE LET m == CHOOSE x \in S : \A y \in S : LenLocalLeq(x, y)
       IN  <<m>> \o SortByLenLocal(S \ {m})

LongPart(p) == Len(p) >= 3

\* The parts of a local of three characters or more, split on dots only.
LongParts(local) == SeqToSet(SelectSeq(SplitOn(local, {"."}), LongPart))

\* token_set_similarity(name1, name2) < 0.4 for two sets of words
TokenSimLow(w1, w2) ==
  /\ w1 \cup w2 # {}
  /\ 10 * Cardinality(w1 \cap w2) < 4 * Cardinality(w1 \cup w2)

\* The name gate for a borderline match: TRUE when the pair is rejected.
NameGateRejects(li, lj, ni, nj) ==
  /\ JWBelow(Lower(ni), Lower(nj), 85, 100)
  /\ TokenSimLow(SeqToSet(Words(Lower(ni))), SeqToSet(Words(Lower(nj))))
  /\ LongParts(li) \cap LongParts(lj) = {}

\* The traffic gate: TRUE when the pair is rejected.
TrafficGateRejects(ci_count, cj_count, ni, nj) ==
  /\ ci_count > 50
  /\ cj_count > 50
  /\ Max2(ci_count, cj_count) < 2 * Max2(1, Min2(ci_count, cj_count))
  /\ IF ni # << >> /\ nj # << >>
     THEN JWBelow(Lower(ni), Lower(nj), 95, 100)
     ELSE TRUE

\* The gates a pair within the threshold passes, its names and counts
\* being known.
FuzzyGates(li, lj, dist, threshold, ni, nj, ci_count, cj_count) ==
  /\ dist <= threshold
  /\ ~(ni # << >> /\ nj # << >> /\ dist = threshold
       /\ NameGateRejects(li, lj, ni, nj))
  /\ ~TrafficGateRejects(ci_count, cj_count, ni, nj)

FuzzyThreshold(li, lj) == Max2(2, Min2(Len(li), Len(lj)) \div 5)

\* Whether the loop leaves the pair of locals before it reaches uf.find.
LocalsPruned(li, lj) ==
  \/ Min2(Len(li), Len(lj)) < 2
  \/ Len(lj) - Len(li) > FuzzyThreshold(li, lj)

FuzzyPruned(ci, cj) == LocalsPruned(LocalOf(ci), LocalOf(cj))

\* Whether the pair (ci, cj), ci before cj in the sorted list, is unioned
\* when the loop reaches it with the two in different sets.
FuzzyAccepts(ci, cj, alias_map, nodes_by_id) ==
  /\ ~FuzzyPruned(ci, cj)
  /\ FuzzyGates(LocalOf(ci), LocalOf(cj),
                levenshtein(LocalOf(ci), LocalOf(cj)),
                FuzzyThreshold(LocalOf(ci), LocalOf(cj)),
                _best_name_for_canonical(ci, alias_map, nodes_by_id),
                _best_name_for_canonical(cj, alias_map, nodes_by_id),
                _total_count_for_canonical(ci, alias_map, nodes_by_id),
                _total_count_for_canonical(cj, alias_map, nodes_by_id))

RECURSIVE UFAddAll(_, _, _, _)
UFAddAll(uf, canons, alias_map, nodes_by_id) ==
  IF canons = << >> THEN uf
  ELSE UFAddAll(UFAdd(uf, Head(canons),
                      _total_count_for_canonical(Head(canons), alias_map,
                                                 nodes_by_id)),
                Tail(canons), alias_map, nodes_by_id)

\* The pairs of positions (i, j), i < j, of a list of n entries.
PairsOf(n) == {p \in (1..n) \X (1..n) : p[1] < p[2]}

FuzzyReached(info) ==
  {p \in PairsOf(Len(info)) : ~FuzzyPruned(info[p[1]], info[p[2]])}

FuzzyAccepted(info, alias_map, nodes_by_id) ==
  {p \in PairsOf(Len(info)) :
     FuzzyAccepts(info[p[1]], info[p[2]], alias_map, nodes_by_id)}

\* One domain, its canonicals sorted by (len(local), local); a domain with
\* fewer than two canonicals is skipped.
FuzzyDomain(uf, info, alias_map, nodes_by_id) ==
  IF Len(info) < 2 THEN uf
  ELSE UnionPairs(UFAddAll(uf, info, alias_map, nodes_by_id), info, 1, 2,
                  FuzzyReached(info),
                  FuzzyAccepted(info, alias_map, nodes_by_id))

\* The loop over domains.
RECURSIVE FuzzyDomains(_, _, _, _)
FuzzyDomains(uf, domains, alias_map, nodes_by_id) ==
  IF domains = << >> THEN uf
  ELSE FuzzyDomains(
         FuzzyDomain(uf, SortByLenLocal(CanonsOn(alias_map, Head(domains))),
                     alias_map, nodes_by_id),
         Tail(domains), alias_map, nodes_by_id)

\* The total count of every canonical.
CountTable(alias_map, nodes_by_id) ==
  [c \in Canons(alias_map) |->
     _total_count_for_canonical(c, alias_map, nodes_by_id)]

\* A faulty choice of the best member: of those with the highest count, the
\* one with the least key.
BestOfLeastKey(members, counts) ==
  CHOOSE b \in members :
    \A m \in members :
      counts[m] < counts[b] \/ (counts[m] = counts[b] /\ StrLeq(b, m))

\* max(members, key=lambda c: (count, c))
BestOf(members, counts) ==
  CHOOSE b \in members :
    \A m \in members :
      counts[m] < counts[b] \/ (counts[m] = counts[b] /\ StrLeq(m, b))

BestByCount(members, alias_map, nodes_by_id) ==
  BestOf(members, CountTable(alias_map, nodes_by_id))

\* The merge map of a set of groups: in every group of two or more, each
\* member but the best maps to the best.
MergesOf(groups, counts) ==
  [m \in UNION {g \ {BestOf(g, counts)} : g \in groups} |->
     BestOf(CHOOSE g \in groups : m \in g, counts)]

BigGroups(uf) == {g \in UFGroupSets(uf) : Cardinality(g) > 1}

GroupMerges(uf, alias_map, nodes_by_id) ==
  MergesOf(BigGroups(uf), CountTable(alias_map, nodes_by_id))

\* A faulty Layer 4: `skip` is not looked at.
FuzzyAlways(nodes_by_id, alias_map, skip) ==
  GroupMerges(
    FuzzyDomains(UFEmpty, SortedOfSet(DomainsOf(alias_map)),
                 alias_map, nodes_by_id),
    alias_map, nodes_by_id)

fuzzy_match_groups(nodes_by_id, alias_map, skip) ==
  IF skip THEN << >>
  ELSE GroupMerges(
         FuzzyDomains(UFEmpty, SortedOfSet(DomainsOf(alias_map)),
                      alias_map, nodes_by_id),
         alias_map, nodes_by_id)

(***************************************************************************)
(* Layer 5: single-part to full-name matching                              *)
(***************************************************************************)

\* The elements of `order` that are in S, in that order.
Restrict(order, S) == LET In(x) == x \in S IN SelectSeq(order, In)

IsSingle(canon) == Len(NameParts(LocalOf(canon))) <= 1

\* candidates.sort(key=lambda x: -x[1]): a stable sort by falling count.
RECURSIVE SortByCountDesc(_, _, _)
SortByCountDesc(cands, alias_map, nodes_by_id) ==
  IF cands = << >> THEN << >>
  ELSE
    LET cnt(c) == _total_count_for_canonical(c, alias_map, nodes_by_id)
        k == CHOOSE i \in 1..Len(cands) :
               /\ \A j \in 1..Len(cands) : cnt(cands[j]) <= cnt(cands[i])
               /\ \A j \in 1..(i - 1) : cnt(cands[j]) < cnt(cands[i])
    IN  <<cands[k]>>
        \o SortByCountDesc(SubSeq(cands, 1, k - 1) \o Drop(cands, k),
                           alias_map, nodes_by_id)

\* A faulty choice of the target: of several candidates the one with the
\* highest count is taken, whatever the count of the runner-up.
SingleTargetTop(single, alias_map, nodes_by_id, order) ==
  LET domain == DomainOf(single)
      HoldsSingle(c) ==
        /\ HasAt(c)
        /\ DomainOf(c) = domain
        /\ ~IsSingle(c)
        /\ LocalOf(single) \in SeqToSet(NameParts(LocalOf(c)))
      candidates == SelectSeq(order, HoldsSingle)
      sorted == SortByCountDesc(candidates, alias_map, nodes_by_id)
  IN  IF candidates = << >> THEN << >> ELSE sorted[1]

\* The target of a single-part canonical, << >> when it is not merged;
\* `order` is the iteration order of set(alias_map.values()).
SingleTarget(single, alias_map, nodes_by_id, order) ==
  LET domain == DomainOf(single)
      HoldsSingle(c) ==
        /\ HasAt(c)
        /\ DomainOf(c) = domain
        /\ ~IsSingle(c)
        /\ LocalOf(single) \in SeqToSet(NameParts(LocalOf(c)))
      candidates == SelectSeq(order, HoldsSingle)
      sorted == SortByCountDesc(candidates, alias_map, nodes_by_id)
      top_count == _total_count_for_canonical(sorted[1], alias_map, nodes_by_id)
      second_count ==
        _total_count_for_canonical(sorted[2], alias_map, nodes_by_id)
  IN  IF candidates = << >> THEN << >>
      ELSE IF Len(candidates) = 1 THEN candidates[1]
      ELSE IF top_count > 0
              /\ (second_count = 0 \/ top_count >= 5 * Max2(1, second_count))
      THEN sorted[1]
      ELSE << >>

single_to_full_name_matches(alias_map, nodes_by_id, order) ==
  DeltaOf([c \in {x \in Canons(alias_map) : HasAt(x) /\ IsSingle(x)} |->
             SingleTarget(c, alias_map, nodes_by_id, order)])

(***************************************************************************)
(* Layer 6: concatenation matching                                         *)
(***************************************************************************)

\* domain_multiparts[domain]: canonicals with two or more name parts
MultiPart(alias_map, domain) ==
  {c \in CanonsOn(alias_map, domain) : Len(NameParts(LocalOf(c))) >= 2}

ConcatTarget(canon, alias_map) ==
  IF ~HasAt(canon) THEN << >>
  ELSE
    LET local == LocalOf(canon)
        known == MultiPart(alias_map, DomainOf(canon))
        splits == {sp \in 2..(Len(local) - 2) :
                     LET key == SortStrs(<<Take(local, sp), Drop(local, sp)>>)
                     IN  HasKey(known, key) /\ AtKey(known, key) # canon}
        matches == {AtKey(known, SortStrs(<<Take(local, sp), Drop(local, sp)>>)) :
                      sp \in splits}
    IN  IF known = {} \/ Len(NameParts(local)) # 1 \/ Len(local) < 6
        THEN << >>
        ELSE IF Cardinality(matches) = 1 THEN CHOOSE m \in matches : TRUE
        ELSE << >>

concatenation_matches(alias_map, nodes_by_id) ==
  DeltaOf([c \in Canons(alias_map) |-> ConcatTarget(c, alias_map)])

(***************************************************************************)
(* Layer 7: same-name merging                                              *)
(***************************************************************************)

\* ' '.join(sorted(name.lower().split()))
NormName(name) == Join(SortStrs(Words(Lower(name))), <<" ">>)

\* [p for p in re.split(r'[._\-]', local) if p]
CleanParts(local) == SelectSeq(SplitOn(local, NameDelims), NonEmpty)

IsGenericLocal(local) ==
  Len(CleanParts(local)) = 1 /\ CleanParts(local)[1] \in GENERIC_LOCALS

\* max(3, max(len(di), len(dj)) // 3)
DomainThreshold(di, dj) == Max2(3, Max2(Len(di), Len(dj)) \div 3)

\* The best name of every canonical.
NameTable(alias_map, nodes_by_id) ==
  [c \in Canons(alias_map) |->
     _best_name_for_canonical(c, alias_map, nodes_by_id)]

\* The canonicals of the list that are addresses with a name of two or
\* more words.
TwoWordNamed(order, names) ==
  LET Named(c) == HasAt(c) /\ Len(Words(Lower(names[c]))) >= 2
  IN  SelectSeq(order, Named)

\* The first of the highest count among the entries of the list that share
\* the domain and the normalized name of c.
TopOfGroup(c, named, names, alias_map, nodes_by_id) ==
  LET Same(x) == /\ DomainOf(x) = DomainOf(c)
                 /\ NormName(names[x]) = NormName(names[c])
  IN  SortByCountDesc(SelectSeq(named, Same), alias_map, nodes_by_id)[1]

\* The map from each entry that is not the top of its group to that top.
NotSelf(tops) == [c \in {x \in DOMAIN tops : tops[x] # x} |-> tops[c]]

Strategy1Of(named, names, alias_map, nodes_by_id) ==
  NotSelf([c \in SeqToSet(named) |->
             TopOfGroup(c, named, names, alias_map, nodes_by_id)])

Strategy1Named(order, names, alias_map, nodes_by_id) ==
  Strategy1Of(TwoWordNamed(order, names), names, alias_map, nodes_by_id)

\* Strategy 1: same domain, same normalized name of two or more words.
\* Each entry of a group but the first of the highest count maps to it.
Strategy1(alias_map, nodes_by_id, order) ==
  Strategy1Named(order, NameTable(alias_map, nodes_by_id), alias_map,
                 nodes_by_id)

\* The groups of a keyed grouping of the list `entries`, in the order in
\* which their keys are first met, each with its entries in list order.
GroupsBy(entries, keys) ==
  LET n == Len(entries)
      firsts == {i \in 1..n : \A j \in 1..(i - 1) : keys[j] # keys[i]}
      RECURSIVE Build(_)
      Build(i) ==
        IF i > n THEN << >>
        ELSE IF i \in firsts
        THEN << LET Same(e) ==
                      \E k \in 1..n : entries[k] = e /\ keys[k] = keys[i]
                IN  SelectSeq(entries, Same) >> \o Build(i + 1)
        ELSE Build(i + 1)
  IN  Build(1)

\* One group of a strategy: its entries are added, then compared pairwise;
\* a pair met in different sets is unioned when it is in `accepted`.
AcceptedPairs(g, accepted) ==
  {p \in PairsOf(Len(g)) : <<g[p[1]], g[p[2]]>> \in accepted}

RunGroup(uf, g, accepted, alias_map, nodes_by_id) ==
  UnionPairs(UFAddAll(uf, g, alias_map, nodes_by_id), g, 1, 2,
             PairsOf(Len(g)), AcceptedPairs(g, accepted))

\* The loop of a strategy over its groups of two or more.
RECURSIVE RunGroups(_, _, _, _, _)
RunGroups(uf, groups, accepted, alias_map, nodes_by_id) ==
  IF groups = << >> THEN uf
  ELSE RunGroups(RunGroup(uf, Head(groups), accepted, alias_map, nodes_by_id),
                 Tail(groups), accepted, alias_map, nodes_by_id)

AtLeastTwo(g) == Len(g) >= 2

\* The canonicals Strategy 1b looks at, in sorted order.
Strategy1bEntries(alias_map, merged) ==
  LET Eligible(c) ==
        /\ c \notin merged
        /\ HasAt(c)
        /\ ~IsGenericLocal(LocalOf(c))
        /\ Lower(LocalOf(c)) \notin COMMON_FIRST_NAMES
        /\ Len(LocalOf(c)) > 3
  IN  SelectSeq(SortedOfSet(Canons(alias_map)), Eligible)

LocalsOf(entries) == [i \in 1..Len(entries) |-> LocalOf(entries[i])]

GroupsByLocal(entries) ==
  SelectSeq(GroupsBy(entries, LocalsOf(entries)), AtLeastTwo)

\* Strategy 1b: same local, similar domain.
Strategy1bGroups(alias_map, merged) ==
  GroupsByLocal(Strategy1bEntries(alias_map, merged))

DomainDist(ci, cj) == levenshtein(DomainOf(ci), DomainOf(cj))

Strategy1bAccepts(ci, cj) ==
  /\ DomainDist(ci, cj) <= DomainThreshold(DomainOf(ci), DomainOf(cj))
  /\ DomainDist(ci, cj) > 0

MembersOf(groups) == UNION {SeqToSet(groups[k]) : k \in 1..Len(groups)}

Accepted1b(members) ==
  {p \in members \X members : Strategy1bAccepts(p[1], p[2])}

Strategy1bOf(groups, alias_map, nodes_by_id) ==
  GroupMerges(RunGroups(UFEmpty, groups, Accepted1b(MembersOf(groups)),
                        alias_map, nodes_by_id),
              alias_map, nodes_by_id)

Strategy1b(alias_map, nodes_by_id, merged) ==
  Strategy1bOf(Strategy1bGroups(alias_map, merged), alias_map, nodes_by_id)

\* The canonicals Strategies 2 and 3 look at, in sorted order.
NamedEntries(alias_map, nodes_by_id, merged) ==
  LET Eligible(c) ==
        /\ c \notin merged
        /\ HasAt(c)
        /\ _best_name_for_canonical(c, alias_map, nodes_by_id) # << >>
  IN  SelectSeq(SortedOfSet(Canons(alias_map)), Eligible)

NeedsDomainCheck(local) ==
  \/ IsGenericLocal(local)
  \/ Lower(local) \in COMMON_FIRST_NAMES
  \/ Len(local) <= 4

DomainsClose(ci, cj) ==
  levenshtein(DomainOf(ci), DomainOf(cj))
    <= DomainThreshold(DomainOf(ci), DomainOf(cj))

\* Strategy 2: same local and same name; the two are in one group, so
\* they share the local.
Strategy2Accepts(ci, cj) ==
  NeedsDomainCheck(LocalOf(ci)) => DomainsClose(ci, cj)

\* min over the permutations perm of sum(levenshtein(pi[k], pj[perm[k]]))
BestPartDist(pi, pj) ==
  LET n == Len(pi)
      total(perm) ==
        SumSeq([k \in 1..n |-> levenshtein(pi[k], pj[perm[k]])])
      perms == Perms(1..n)
  IN  CHOOSE d \in {total(q) : q \in perms} :
        \A q \in perms : d <= total(q)

RECURSIVE SumLens(_)
SumLens(parts) ==
  IF parts = << >> THEN 0 ELSE Len(Head(parts)) + SumLens(Tail(parts))

\* The two ways in which two locals match: whole, or part by part in the
\* best pairing of their sorted parts.
FullMatch(li, lj) ==
  levenshtein(li, lj) <= Max2(2, Min2(Len(li), Len(lj)) \div 4)

PartMatch(pi, pj) ==
  /\ Len(pi) = Len(pj)
  /\ Len(pi) >= 2
  /\ BestPartDist(pi, pj) <= Max2(2, SumLens(pi) \div 4)

LocalsMatch(li, lj) ==
  /\ Min2(Len(li), Len(lj)) >= 3
  /\ \/ FullMatch(li, lj)
     \/ PartMatch(SortStrs(SplitOn(li, NameDelims)),
                  SortStrs(SplitOn(lj, NameDelims)))

\* Strategy 3: same name, fuzzy local, gated domain.
Strategy3Accepts(ci, cj) ==
  /\ LocalsMatch(LocalOf(ci), LocalOf(cj))
  /\ (NeedsDomainCheck(LocalOf(ci)) \/ NeedsDomainCheck(LocalOf(cj)))
       => DomainsClose(ci, cj)

Accepted2(members) ==
  {p \in members \X members : Strategy2Accepts(p[1], p[2])}

Accepted3(members) ==
  {p \in members \X members : Strategy3Accepts(p[1], p[2])}

\* The normalized best name of every entry of the list.
NormsOf(entries, names) ==
  [i \in 1..Len(entries) |-> NormName(names[entries[i]])]

LocalNormsOf(entries, names) ==
  [i \in 1..Len(entries) |->
     <<LocalOf(entries[i]), NormName(names[entries[i]])>>]

Groups2(entries, names) ==
  SelectSeq(GroupsBy(entries, LocalNormsOf(entries, names)), AtLeastTwo)

Groups3(entries, names) ==
  SelectSeq(GroupsBy(entries, NormsOf(entries, names)), AtLeastTwo)

Strategy23Of(entries, names, alias_map, nodes_by_id) ==
  RunGroups(RunGroups(UFEmpty, Groups2(entries, names),
                      Accepted2(SeqToSet(entries)), alias_map, nodes_by_id),
            Groups3(entries, names), Accepted3(SeqToSet(entries)),
            alias_map, nodes_by_id)

\* Strategies 2 and 3 fill one union-find, Strategy 2 first.
Strategy23(alias_map, nodes_by_id, merged) ==
  Strategy23Of(NamedEntries(alias_map, nodes_by_id, merged),
               NameTable(alias_map, nodes_by_id), alias_map, nodes_by_id)

\* A group of the Strategy 2/3 union-find with the destinations that
\* new_merges already holds for its members.
AllCandidates(g, new_merges) ==
  g \cup {new_merges[m] : m \in g \cap DOMAIN new_merges}

CandidateGroups(uf2, new_merges) ==
  {AllCandidates(g, new_merges) : g \in BigGroups(uf2)}

\* The conversion of the Strategy 2/3 groups: the candidate of highest
\* (count, id) is best, every other candidate maps to it.
FinalMerges(uf2, new_merges, alias_map, nodes_by_id) ==
  MergesOf(CandidateGroups(uf2, new_merges),
           CountTable(alias_map, nodes_by_id))

SameNameFinal(new_merges, alias_map, nodes_by_id) ==
  FinalMerges(Strategy23(alias_map, nodes_by_id, DOMAIN new_merges),
              new_merges, alias_map, nodes_by_id) @@ new_merges

SameName1b(s1, alias_map, nodes_by_id) ==
  SameNameFinal(s1 @@ Strategy1b(alias_map, nodes_by_id, DOMAIN s1),
                alias_map, nodes_by_id)

_same_name_merge(alias_map, nodes_by_id, order) ==
  SameName1b(Strategy1(alias_map, nodes_by_id, order), alias_map, nodes_by_id)

\* A faulty resolution: the destination is taken as the delta gives it.
ResolveOneStep(merges, dst, seen) == dst

\* Chains of merges are followed to their end, a chain that closes on
\* itself being left where it closes; then every original whose canonical
\* is a source is re-pointed.
RECURSIVE Resolve(_, _, _)
Resolve(merges, dst, seen) ==
  IF dst \in DOMAIN merges /\ dst \notin seen
  THEN Resolve(merges, merges[dst], seen \cup {dst})
  ELSE dst

\* A faulty application of a layer's merges: only the original id that is
\* itself a merged canonical is re-pointed.
ApplyToIds(alias_map, merges) ==
  [orig_id \in DOMAIN alias_map |->
     IF orig_id \in DOMAIN merges
     THEN Resolve(merges, merges[orig_id], {orig_id})
     ELSE alias_map[orig_id]]

\* A faulty application: the delta is applied as it is, chains unresolved.
ApplyUnresolved(alias_map, merges) ==
  [orig_id \in DOMAIN alias_map |->
     IF alias_map[orig_id] \in DOMAIN merges
     THEN merges[alias_map[orig_id]]
     ELSE alias_map[orig_id]]

_apply_layer_merges(alias_map, merges) ==
  [orig_id \in DOMAIN alias_map |->
     IF alias_map[orig_id] \in DOMAIN merges
     THEN Resolve(merges, merges[alias_map[orig_id]], {alias_map[orig_id]})
     ELSE alias_map[orig_id]]

(***************************************************************************)
(* Choosing the surviving id of a group                                    *)
(***************************************************************************)

\* re.sub(r'(?<=[a-z])D(?=[a-z])', L, s): every digit D that stands between
\* two lower-case letters becomes L.
SubEmbedded(s, digit, letter) ==
  [i \in 1..Len(s) |->
     IF /\ s[i] = digit
        /\ i > 1 /\ i < Len(s)
        /\ s[i - 1] \in LowerLetters
        /\ s[i + 1] \in LowerLetters
     THEN letter ELSE s[i]]

\* re.sub(r'^D(?=[a-z]{3,})', L, s): a leading D before three letters.
SubLeading(s, digit, letter) ==
  IF /\ Len(s) >= 4
     /\ s[1] = digit
     /\ \A i \in 2..4 : s[i] \in LowerLetters
  THEN <<letter>> \o Tail(s)
  ELSE s

EmbeddedDigitFixes ==
  << <<"1", "l">>, <<"0", "o">>, <<"3", "e">>, <<"8", "b">>, <<"5", "s">>,
     <<"6", "b">>, <<"2", "z">> >>

LeadingDigitFixes ==
  << <<"3", "e">>, <<"1", "l">>, <<"0", "o">>, <<"6", "b">>, <<"5", "s">> >>

RECURSIVE ApplyEmbedded(_, _)
ApplyEmbedded(s, k) ==
  IF k = 0 THEN s
  ELSE SubEmbedded(ApplyEmbedded(s, k - 1),
                   EmbeddedDigitFixes[k][1], EmbeddedDigitFixes[k][2])

RECURSIVE ApplyLeading(_, _)
ApplyLeading(s, k) ==
  IF k = 0 THEN s
  ELSE SubLeading(ApplyLeading(s, k - 1),
                  LeadingDigitFixes[k][1], LeadingDigitFixes[k][2])

CleanPart(part) ==
  IF part # << >> /\ \A i \in 1..Len(part) : part[i] \in Digits THEN part
  ELSE ApplyLeading(ApplyEmbedded(part, Len(EmbeddedDigitFixes)),
                    Len(LeadingDigitFixes))

\* The parts between '.' and '_' are cleaned one by one and put back
\* together with the separators they had.
RECURSIVE ocr_clean_local_for_display(_)
ocr_clean_local_for_display(local) ==
  IF \A i \in 1..Len(local) : local[i] \notin {".", "_"}
  THEN CleanPart(local)
  ELSE LET k == CHOOSE i \in 1..Len(local) :
                  /\ local[i] \in {".", "_"}
                  /\ \A j \in 1..(i - 1) : local[j] \notin {".", "_"}
       IN  CleanPart(SubSeq(local, 1, k - 1)) \o <<local[k]>>
           \o ocr_clean_local_for_display(Drop(local, k))

CleanDomains ==
  { <<"e", "p", "a", ".", "g", "o", "v">>,
    <<"g", "m", "a", "i", "l", ".", "c", "o", "m">>,
    <<"y", "a", "h", "o", "o", ".", "c", "o", "m">> }

NameArtifacts == << <<"r", "n">>, <<"i", "i">>, <<"0">>, <<"1">>, <<"3">> >>

\* score(node) of choose_canonical_node
CanonicalScore(node) ==
  LET nid == node.id
      name == Get(node, "name", << >>)
      domain == Get(node, "domain", << >>)
      count == Get(node, "count", 0)
      domain_clean ==
        B2N(\/ domain \in CleanDomains
            \/ /\ EndsWith(domain, GOV)
               /\ \A c \in {"q", "3", "0"} : ~HasChar(domain, c))
      local == IF HasAt(nid) THEN LocalOf(nid) ELSE nid
      has_dot == B2N(HasChar(local, "."))
      name_score ==
        IF name = << >> THEN 0
        ELSE 2 * B2N(Len(Words(name)) >= 2)
             + B2N(name = Title(name) \/ name = Upper(name))
             - B2N(CountIn(NameArtifacts, Lower(name)) > 0)
  IN  <<count, domain_clean, has_dot, name_score, 0 - Len(nid)>>

\* max(..., key=...) over a list of key tuples: the index of the first
\* entry that no entry beats.
FirstMaxIndex(scores) ==
  CHOOSE i \in 1..Len(scores) :
    /\ \A j \in 1..Len(scores) : ~TupleLess(scores[i], scores[j])
    /\ \A j \in 1..(i - 1) : TupleLess(scores[j], scores[i])

\* max(nodes, key=score)
choose_canonical_node(nodes) ==
  nodes[FirstMaxIndex([i \in 1..Len(nodes) |-> CanonicalScore(nodes[i])])]

\* The OCR cleanup of the local part of the surviving id.
DisplayId(best_id) ==
  IF HasAt(best_id)
  THEN MkEmail(ocr_clean_local_for_display(LocalOf(best_id)),
               DomainOf(best_id))
  ELSE best_id

\* The surviving id made of the chosen node's id.
CleanBestId(nid) == DisplayId(apply_domain_normalization(structural_cleanup(nid)))

(***************************************************************************)
(* Display names                                                           *)
(***************************************************************************)

DisplayNameArtifacts ==
  << <<"r", "n">>, <<"i", "i">>, <<"v", "v">>, <<"f", "f", "l">>,
     <<"s", "v", "d">>, <<"l", "i", "a", "v">> >>

RECURSIVE SumNameCount(_, _)
SumNameCount(nodes, name) ==
  IF nodes = << >> THEN 0
  ELSE (IF Get(Head(nodes), "name", << >>) = name
        THEN Get(Head(nodes), "count", 1) ELSE 0)
       + SumNameCount(Tail(nodes), name)

\* The keys of name_counts in insertion order: the names of the nodes
\* that have one, each where the list first brings it.
RECURSIVE NameKeys(_, _)
NameKeys(nodes, seen) ==
  IF nodes = << >> THEN << >>
  ELSE IF Get(Head(nodes), "name", << >>) = << >>
          \/ Get(Head(nodes), "name", << >>) \in seen
  THEN NameKeys(Tail(nodes), seen)
  ELSE <<Get(Head(nodes), "name", << >>)>>
       \o NameKeys(Tail(nodes), seen \cup {Get(Head(nodes), "name", << >>)})

name_quality(n, nodes) ==
  << B2N(Len(Words(n)) >= 2),
     B2N(n = Title(n)),
     SumNameCount(nodes, n),
     0 - CountIn(DisplayNameArtifacts, Lower(n)) >>

BestKey(keys, nodes) ==
  IF keys = << >> THEN << >>
  ELSE keys[FirstMaxIndex([k \in 1..Len(keys) |-> name_quality(keys[k], nodes)])]

\* max(name_counts.keys(), key=name_quality)
best_display_name(nodes) == BestKey(NameKeys(nodes, {}), nodes)

\* The value None of a function that returns a string or None.
None == <<"None">>

_split_initial_name(name) ==
  LET words == Words(name)
      word == words[1]
  IN  IF name = << >> \/ Len(name) < 5 THEN None
      ELSE IF Len(words) # 1 THEN None
      ELSE IF Lower(word) \in COMMON_FIRST_NAMES THEN None
      ELSE IF Lower(word) \in GENERIC_LOCALS THEN None
      ELSE IF Lower(word) \in COMMON_ENGLISH_WORDS THEN None
      ELSE IF word[1] \notin UpperLetters THEN None
      ELSE IF Len(word) - 1 < 3 THEN None
      ELSE <<word[1], ".", " ">> \o Title(Tail(word))

RECURSIVE TitleAll(_)
TitleAll(parts) ==
  IF parts = << >> THEN << >>
  ELSE <<Title(Head(parts))>> \o TitleAll(Tail(parts))

_name_from_email(email_id) ==
  LET parts == NameParts(LocalOf(email_id))
      split == _split_initial_name(Title(parts[1]))
  IN  IF ~HasAt(email_id) THEN << >>
      ELSE IF parts = << >> THEN << >>
      ELSE IF Len(parts) = 1 /\ Lower(parts[1]) \in GENERIC_LOCALS THEN << >>
      ELSE IF Len(parts) = 1 /\ split # None THEN split
      ELSE Join(TitleAll(parts), <<" ">>)

_fix_name_order(name, email_id, domain) ==
  LET words == Words(name)
      parts == NameParts(LocalOf(email_id))
  IN  IF name = << >> \/ ~HasAt(email_id) THEN name
      ELSE IF domain \notin LASTNAME_FIRST_DOMAINS THEN name
      ELSE IF Len(words) # 2 THEN name
      ELSE IF Len(parts) # 2 THEN name
      ELSE IF Lower(words[1]) = parts[1] /\ Lower(words[2]) = parts[2]
      THEN words[2] \o <<" ">> \o words[1]
      ELSE name

(***************************************************************************)
(* Merging nodes and edges                                                 *)
(***************************************************************************)

\* A faulty sum: the counter of the first node of the group alone.
FieldOfFirst(nodes, field) ==
  IF nodes = << >> THEN 0 ELSE Get(Head(nodes), field, 0)

RECURSIVE SumField(_, _)
SumField(nodes, field) ==
  IF nodes = << >> THEN 0
  ELSE Get(Head(nodes), field, 0) + SumField(Tail(nodes), field)

RECURSIVE SortInts(_)
SortInts(S) ==
  IF S = {} THEN << >>
  ELSE LET m == CHOOSE x \in S : \A y \in S : x <= y
       IN  <<m>> \o SortInts(S \ {m})

MaxOf(S, default) ==
  IF S = {} THEN default ELSE CHOOSE x \in S : \A y \in S : y <= x

\* [nodes_by_id[oid] for oid in original_ids]
GroupNodes(original_ids, nodes_by_id) ==
  [j \in 1..Len(original_ids) |-> nodes_by_id[original_ids[j]]]

\* The entry of the merged list for one group, its domain and its name
\* before the order fix being known.
MergedRecord(best_id, original_ids, group_nodes, domain, name) ==
  [id |-> best_id,
   name |-> _fix_name_order(name, best_id, domain),
   domain |-> domain,
   sent |-> SumField(group_nodes, "sent"),
   received |-> SumField(group_nodes, "received"),
   count |-> SumField(group_nodes, "count"),
   years |-> SortInts(UNION {SeqToSet(Get(group_nodes[k], "years", << >>)) :
                               k \in 1..Len(group_nodes)}),
   domain_count |-> MaxOf({Get(group_nodes[k], "domain_count", 0) :
                             k \in 1..Len(group_nodes)}, 0),
   aliases |-> SortedOfSet(SeqToSet(original_ids))]

\* x if x else y
OrElse(x, y) == IF x # << >> THEN x ELSE y

\* split if split is not None else name
SplitOr(split, name) == IF split # None THEN split ELSE name

MergedSplit(best_id, original_ids, group_nodes, domain, name) ==
  MergedRecord(best_id, original_ids, group_nodes, domain,
               SplitOr(_split_initial_name(name), name))

MergedNamed(best_id, original_ids, group_nodes, domain, name) ==
  MergedSplit(best_id, original_ids, group_nodes, domain,
              IF name # << >> THEN name ELSE _name_from_email(best_id))

\* best_node supplies the domain, and the name when the group has none.
MergedFrom(best_id, original_ids, group_nodes, best_node) ==
  MergedNamed(best_id, original_ids, group_nodes,
              normalize_domain(Get(best_node, "domain", << >>)),
              OrElse(best_display_name(group_nodes),
                     Get(best_node, "name", << >>)))

\* nodes_by_id.get(best_id, group_nodes[0])
BestNode(best_id, group_nodes, nodes_by_id) ==
  IF best_id \in DOMAIN nodes_by_id THEN nodes_by_id[best_id]
  ELSE group_nodes[1]

MergedOf(best_id, original_ids, group_nodes, nodes_by_id) ==
  MergedFrom(best_id, original_ids, group_nodes,
             BestNode(best_id, group_nodes, nodes_by_id))

\* One output node: best_id with the list of the group's ids in the
\* iteration order of the set object that holds them.
MergedNode(best_id, original_ids, nodes_by_id) ==
  MergedOf(best_id, original_ids, GroupNodes(original_ids, nodes_by_id),
           nodes_by_id)

\* best_id_groups is a dict: a list of <<best_id, original_ids>> in
\* insertion order.  Every group has a node, for its ids are input ids.
merge_nodes(best_id_groups, nodes_by_id) ==
  [k \in 1..Len(best_id_groups) |->
     MergedNode(best_id_groups[k][1], best_id_groups[k][2], nodes_by_id)]

\* A faulty dict assignment: a list that takes every pair, also one whose
\* key it holds.
DictPutAppend(d, key, value) == Append(d, <<key, value>>)

\* dict assignment d[key] = value on a list of <<key, value>> pairs
DictPut(d, key, value) ==
  IF \E k \in 1..Len(d) : d[k][1] = key
  THEN [k \in 1..Len(d) |-> IF d[k][1] = key THEN <<key, value>> ELSE d[k]]
  ELSE Append(d, <<key, value>>)

DictKeys(d) == {d[k][1] : k \in 1..Len(d)}

DictGet(d, key) == d[CHOOSE k \in 1..Len(d) : d[k][1] = key][2]

\* A faulty remap: the endpoint as the input writes it.
RemapNothing(alias_map, x) == x

\* alias_map.get(x, x)
Remap(alias_map, x) == IF x \in DOMAIN alias_map THEN alias_map[x] ELSE x

\* A faulty loop over the edges: the key is the pair of remapped endpoints
\* in sorted order, so that the two directions share an aggregate.
RECURSIVE AggregateUndirected(_, _, _)
AggregateUndirected(edge_agg, edges, alias_map) ==
  IF edges = << >> THEN edge_agg
  ELSE
    LET edge == Head(edges)
        ends == SortStrs(<<Remap(alias_map, edge.source),
                           Remap(alias_map, edge.target)>>)
        add == [source |-> ends[1],
                target |-> ends[2],
                weight |-> Get(edge, "weight", 1),
                years |-> SeqToSet(Get(edge, "years", << >>)),
                doc_ids |-> SeqToSet(Get(edge, "doc_ids", << >>))]
        next ==
          IF ends[1] = ends[2] THEN edge_agg
          ELSE IF ends \in DictKeys(edge_agg)
          THEN DictPut(edge_agg, ends,
                       [DictGet(edge_agg, ends) EXCEPT
                          !.weight = @ + add.weight,
                          !.years = @ \cup add.years,
                          !.doc_ids = @ \cup add.doc_ids])
          ELSE DictPut(edge_agg, ends, add)
    IN  AggregateUndirected(next, Tail(edges), alias_map)

\* The loop over the edges, edge_agg being a dict from (src, tgt) to the
\* aggregate with its years and doc_ids kept as sets.
RECURSIVE AggregateEdges(_, _, _)
AggregateEdges(edge_agg, edges, alias_map) ==
  IF edges = << >> THEN edge_agg
  ELSE
    LET edge == Head(edges)
        src == Remap(alias_map, edge.source)
        tgt == Remap(alias_map, edge.target)
        key == <<src, tgt>>
        old == DictGet(edge_agg, key)
        add == [source |-> src,
                target |-> tgt,
                weight |-> Get(edge, "weight", 1),
                years |-> SeqToSet(Get(edge, "years", << >>)),
                doc_ids |-> SeqToSet(Get(edge, "doc_ids", << >>))]
        next ==
          IF src = tgt THEN edge_agg
          ELSE IF key \in DictKeys(edge_agg)
          THEN DictPut(edge_agg, key,
                       [old EXCEPT !.weight = @ + add.weight,
                                   !.years = @ \cup add.years,
                                   !.doc_ids = @ \cup add.doc_ids])
          ELSE DictPut(edge_agg, key, add)
    IN  AggregateEdges(next, Tail(edges), alias_map)

merge_edges(edges, alias_map) ==
  LET edge_agg == AggregateEdges(<< >>, edges, alias_map)
  IN  [k \in 1..Len(edge_agg) |->
         [edge_agg[k][2] EXCEPT !.years = SortInts(@),
                                !.doc_ids = SortedOfSet(@)]]

(***************************************************************************)
(* The inputs of a run                                                     *)
(***************************************************************************)

\* The most nodes and edges of an input graph.
MaxNodes == 3

MaxEdges == 2

\* Nodes as extract_emails.py writes them (domain is the part of the id
\* after '@'); the last one has only the fields every node has.
NodePool ==
  { [id |-> <<"b", "3", "n", "@", "a", "b", ".", "c", "o", "m">>,
     name |-> <<>>,
     domain |-> <<"a", "b", ".", "c", "o", "m">>,
     sent |-> 1,
     received |-> 2,
     count |-> 3,
     years |-> <<2019>>,
     domain_count |-> 2],
    [id |-> <<"b", "e", "n", "@", "a", "b", ".", "c", "o", "m">>,
     name |-> <<"B", "e", "n", " ", "L", "o">>,
     domain |-> <<"a", "b", ".", "c", "o", "m">>,
     sent |-> 2,
     received |-> 3,
     count |-> 5,
     years |-> <<2019, 2020>>,
     domain_count |-> 3],
    [id |-> <<"a", "b", ".", "c", "d", "@", "a", "b", ".", "c", "o", "m">>,
     name |-> <<>>,
     domain |-> <<"a", "b", ".", "c", "o", "m">>,
     sent |-> 1,
     received |-> 0,
     count |-> 1,
     years |-> <<2020>>,
     domain_count |-> 1],
    [id |-> <<"c", "d", ".", "a", "b", "@", "a", "b", ".", "c", "o", "m">>,
     name |-> <<>>,
     domain |-> <<"a", "b", ".", "c", "o", "m">>,
     sent |-> 0,
     received |-> 1,
     count |-> 1,
     years |-> <<2018>>,
     domain_count |-> 1],
    [id |-> <<"a", "b", ".", "c", "d", "@", "a", "b", ".", "e", "o", "m">>,
     name |-> <<"A", "b", " ", "C", "d">>,
     domain |-> <<"a", "b", ".", "e", "o", "m">>,
     sent |-> 2,
     received |-> 3,
     count |-> 5,
     years |-> <<2019>>,
     domain_count |-> 2],
    [id |-> <<"a", "b", ".", "c", "d", "@", "a", "c", ".", "c", "o", "m">>,
     domain |-> <<"a", "c", ".", "c", "o", "m">>,
     count |-> 4] }

\* One address and five ways in which the corpus writes it: with a dot
\* inside a name, with a letter of the field before it, as the last name
\* alone, without the dot, and without '@' and domain.
VariantPool ==
  { [id |-> <<"a", "n", "n", "a", ".", "l", "e", "e", "@", "a", "b", ".", "c", "o", "m">>,
     name |-> <<"A", "n", "n", "a", " ", "L", "e", "e">>,
     domain |-> <<"a", "b", ".", "c", "o", "m">>,
     sent |-> 2,
     received |-> 2,
     count |-> 4,
     years |-> <<2019>>,
     domain_count |-> 2],
    [id |-> <<"a", "n", ".", "n", "a", ".", "l", "e", "e", "@", "a", "b", ".", "c", "o", "m">>,
     domain |-> <<"a", "b", ".", "c", "o", "m">>,
     count |-> 1],
    [id |-> <<"x", "a", "n", "n", "a", ".", "l", "e", "e", "@", "a", "b", ".", "c", "o", "m">>,
     domain |-> <<"a", "b", ".", "c", "o", "m">>,
     count |-> 1],
    [id |-> <<"l", "e", "e", "@", "a", "b", ".", "c", "o", "m">>,
     domain |-> <<"a", "b", ".", "c", "o", "m">>,
     count |-> 1],
    [id |-> <<"a", "n", "n", "a", "l", "e", "e", "@", "a", "b", ".", "c", "o", "m">>,
     domain |-> <<"a", "b", ".", "c", "o", "m">>,
     count |-> 1],
    [id |-> <<"l", "e", "e", ".", "a", "n", "n", "a">>,
     name |-> <<"A", "n", "n", "a", " ", "L", "e", "e">>,
     domain |-> <<>>,
     count |-> 1] }

\* Addresses on epa.gov and on the two domains normalize_domain keeps
\* apart from it, two locals of one-letter tokens, and a node without id.
EdgeCasePool ==
  { [id |-> <<"a", "b", ".", "c", "d", "@", "e", "p", "a", ".", "g", "o", "v">>,
     domain |-> <<"e", "p", "a", ".", "g", "o", "v">>,
     count |-> 3],
    [id |-> <<"a", "b", ".", "c", "d", "@", "i", "e", "p", "a", ".", "g", "o", "v">>,
     domain |-> <<"i", "e", "p", "a", ".", "g", "o", "v">>,
     count |-> 2],
    [id |-> <<"a", "b", ".", "c", "d", "@", "c", "a", "l", "e", "p", "a", ".", "c", "a", ".", "g", "o", "v">>,
     domain |-> <<"c", "a", "l", "e", "p", "a", ".", "c", "a", ".", "g", "o", "v">>,
     count |-> 2],
    [id |-> <<"a", ".", "b", "@", "a", "b", ".", "c", "o", "m">>,
     domain |-> <<"a", "b", ".", "c", "o", "m">>,
     count |-> 1],
    [id |-> <<"b", ".", "a", "@", "a", "b", ".", "c", "o", "m">>,
     domain |-> <<"a", "b", ".", "c", "o", "m">>,
     count |-> 1],
    [name |-> <<"N", "o", " ", "I", "d">>,
     count |-> 2] }

\* Two addresses of one domain with the same name and the same count, the
\* first of them on a similar domain, and an address of count 0 with its
\* OCR reading.
TiePool ==
  { [id |-> <<"c", "y", ".", "n", "g", "@", "a", "b", ".", "c", "o", "m">>,
     name |-> <<"C", "y", " ", "N", "g">>,
     domain |-> <<"a", "b", ".", "c", "o", "m">>,
     count |-> 2],
    [id |-> <<"d", "e", "e", ".", "n", "g", "@", "a", "b", ".", "c", "o", "m">>,
     name |-> <<"C", "y", " ", "N", "g">>,
     domain |-> <<"a", "b", ".", "c", "o", "m">>,
     count |-> 2],
    [id |-> <<"c", "y", ".", "n", "g", "@", "a", "c", ".", "c", "o", "m">>,
     name |-> <<"C", "y", " ", "N", "g">>,
     domain |-> <<"a", "c", ".", "c", "o", "m">>,
     count |-> 3],
    [id |-> <<"b", "3", "n", "@", "a", "b", ".", "c", "o", "m">>,
     domain |-> <<"a", "b", ".", "c", "o", "m">>,
     count |-> 0],
    [id |-> <<"b", "e", "n", "@", "a", "b", ".", "c", "o", "m">>,
     name |-> <<"B", "e", "n", " ", "L", "o">>,
     domain |-> <<"a", "b", ".", "c", "o", "m">>,
     count |-> 5] }

\* A last name alone and two full names that hold it, each of them with
\* no traffic and with some.
LeePool ==
  { [id |-> <<"l", "e", "e", "@", "a", "b", ".", "c", "o", "m">>,
     domain |-> <<"a", "b", ".", "c", "o", "m">>,
     count |-> 2],
    [id |-> <<"a", "n", "n", "a", ".", "l", "e", "e", "@", "a", "b", ".", "c", "o", "m">>,
     name |-> <<"A", "n", "n", "a", " ", "L", "e", "e">>,
     domain |-> <<"a", "b", ".", "c", "o", "m">>,
     count |-> 0],
    [id |-> <<"b", "o", "b", ".", "l", "e", "e", "@", "a", "b", ".", "c", "o", "m">>,
     name |-> <<"B", "o", "b", " ", "L", "e", "e">>,
     domain |-> <<"a", "b", ".", "c", "o", "m">>,
     count |-> 0],
    [id |-> <<"a", "n", "n", "a", ".", "l", "e", "e", "@", "a", "b", ".", "c", "o", "m">>,
     name |-> <<"A", "n", "n", "a", " ", "L", "e", "e">>,
     domain |-> <<"a", "b", ".", "c", "o", "m">>,
     count |-> 1],
    [id |-> <<"b", "o", "b", ".", "l", "e", "e", "@", "a", "b", ".", "c", "o", "m">>,
     name |-> <<"B", "o", "b", " ", "L", "e", "e">>,
     domain |-> <<"a", "b", ".", "c", "o", "m">>,
     count |-> 5] }

EdgePool ==
  { [source |-> <<"b", "3", "n", "@", "a", "b", ".", "c", "o", "m">>,
     target |-> <<"b", "e", "n", "@", "a", "b", ".", "c", "o", "m">>,
     weight |-> 2,
     years |-> <<2019>>,
     doc_ids |-> <<<<"d", "1">>>>],
    [source |-> <<"a", "b", ".", "c", "d", "@", "a", "b", ".", "c", "o", "m">>,
     target |-> <<"b", "e", "n", "@", "a", "b", ".", "c", "o", "m">>,
     weight |-> 2,
     years |-> <<2019>>,
     doc_ids |-> <<<<"d", "1">>>>],
    [source |-> <<"c", "d", ".", "a", "b", "@", "a", "b", ".", "c", "o", "m">>,
     target |-> <<"b", "e", "n", "@", "a", "b", ".", "c", "o", "m">>,
     years |-> <<2020, 2018>>,
     doc_ids |-> <<<<"d", "2">>, <<"d", "1">>>>],
    [source |-> <<"b", "e", "n", "@", "a", "b", ".", "c", "o", "m">>,
     target |-> <<"a", "b", ".", "c", "d", "@", "a", "b", ".", "c", "o", "m">>,
     weight |-> 1,
     years |-> <<2019>>,
     doc_ids |-> <<<<"d", "3">>>>],
    [source |-> <<"b", "e", "n", "@", "a", "b", ".", "c", "o", "m">>,
     target |-> <<"b", "e", "n", "@", "a", "b", ".", "c", "o", "m">>,
     weight |-> 1,
     years |-> <<2019>>,
     doc_ids |-> <<<<"d", "3">>>>],
    [source |-> <<"a", "b", ".", "c", "d", "@", "a", "b", ".", "c", "o", "m">>,
     target |-> <<"c", "d", ".", "a", "b", "@", "a", "b", ".", "c", "o", "m">>,
     weight |-> 1],
    [source |-> <<"a", "b", ".", "c", "d", "@", "a", "b", ".", "e", "o", "m">>,
     target |-> <<"a", "b", ".", "c", "d", "@", "a", "c", ".", "c", "o", "m">>,
     weight |-> 3,
     years |-> <<2020>>,
     doc_ids |-> <<<<"d", "2">>>>] }

\* Edges to an address that may be the id of no node.
DanglingPool ==
  { [source |-> <<"b", "3", "n", "@", "a", "b", ".", "c", "o", "m">>,
     target |-> <<"g", "h", "o", "s", "t", "@", "a", "b", ".", "c", "o", "m">>,
     weight |-> 1,
     years |-> <<2019>>,
     doc_ids |-> <<<<"d", "1">>>>],
    [source |-> <<"a", "b", ".", "c", "d", "@", "a", "b", ".", "c", "o", "m">>,
     target |-> <<"b", "e", "n", "@", "a", "b", ".", "c", "o", "m">>,
     weight |-> 2,
     years |-> <<2019>>,
     doc_ids |-> <<<<"d", "1">>>>] }

IdsOf(ns) == {n.id : n \in {x \in ns : "id" \in DOMAIN x}}

\* The node lists of at most MaxNodes nodes of one pool; their ids are
\* pairwise distinct.
NodeSets ==
  {ns \in SUBSET NodePool \cup SUBSET VariantPool \cup SUBSET EdgeCasePool
            \cup SUBSET TiePool \cup SUBSET LeePool :
     /\ Cardinality(ns) <= MaxNodes
     /\ \A n1, n2 \in ns :
          "id" \in DOMAIN n1 /\ "id" \in DOMAIN n2 /\ n1.id = n2.id => n1 = n2}

\* The lists of at most MaxEdges different edges between the given ids, or
\* from one of them to an address that is no id.
EdgeLists(ids) ==
  LET usable == {e \in EdgePool : e.source \in ids /\ e.target \in ids}
                \cup {e \in DanglingPool : e.source \in ids /\ e.target \notin ids}
  IN  UNION {Perms(es) : es \in {x \in SUBSET usable : Cardinality(x) <= MaxEdges}}

Graphs ==
  UNION {{[nodes |-> ns, edges |-> es] : es \in EdgeLists(IdsOf(ns))} :
           ns \in NodeSets}

\* What json.load cannot parse: a file that ends inside the nodes array.
Malformed == [unparsed |-> "{\"nodes\": ["]

\* JSON objects without the `edges` or without the `nodes` array.
Incomplete == {[nodes |-> {}], [edges |-> << >>]}

\* What the input file can hold.
Contents == Graphs \cup Incomplete \cup {Malformed}

\* File paths: the input, a path --output may name, and the backup.
InputPath == "email_network.json"

OutPath == "deduped.json"

BackupPath == "email_network.json.bak"

Paths == {InputPath, OutPath, BackupPath}

\* args.output when --output is not given
NoPath == "None"

Args ==
  [output_path : {NoPath, OutPath}, dry_run : BOOLEAN, no_fuzzy : BOOLEAN]

\* {n["id"]: n for n in nodes}
NodesById(ns) == [i \in IdsOf(ns) |-> CHOOSE n \in ns : n.id = i]

(***************************************************************************)
(* Grouping by canonical key and output statistics                         *)
(***************************************************************************)

\* The keys of canonical_groups in insertion order: each canonical where
\* the walk over alias_map, which is in the order of all_original_ids,
\* meets it first.
GroupKeys(alias_map, id_order) ==
  LET IsFirst(k) == \A j \in 1..(k - 1) : alias_map[id_order[j]] # alias_map[id_order[k]]
      RECURSIVE Walk(_)
      Walk(k) ==
        IF k > Len(id_order) THEN << >>
        ELSE IF IsFirst(k) THEN <<alias_map[id_order[k]]>> \o Walk(k + 1)
        ELSE Walk(k + 1)
  IN  Walk(1)

\* The iteration orders the sets canonical_groups[canon] can have.
SetOrders(alias_map) ==
  LET canons == Canons(alias_map)
  IN  {f \in [canons -> UNION {Perms(OriginalsOf(alias_map, c)) : c \in canons}] :
         \A c \in canons : f[c] \in Perms(OriginalsOf(alias_map, c))}

\* The surviving id of each canonical group: the chosen node's id, cleaned.
BestIds(set_order, nodes_by_id) ==
  [c \in DOMAIN set_order |->
     CleanBestId(choose_canonical_node(GroupNodes(set_order[c], nodes_by_id)).id)]

\* The loop over canonical_groups from its k-th key on; a group whose
\* surviving id is already a key of best_id_groups takes that entry over.
RECURSIVE GroupLoop(_, _, _, _, _)
GroupLoop(keys, k, set_order, best_ids, best_id_groups) ==
  IF k > Len(keys) THEN best_id_groups
  ELSE GroupLoop(keys, k + 1, set_order, best_ids,
                 DictPut(best_id_groups, best_ids[keys[k]], set_order[keys[k]]))

\* final_remap[oid] = best_id for every oid of every group
FinalRemap(alias_map, best_ids) ==
  [oid \in DOMAIN alias_map |-> best_ids[alias_map[oid]]]

TopDomains == 50

\* sorted(domain_counts.items(), key=lambda x: -x[1])[:50]
recompute_stats(nodes, edges) ==
  LET dom(k) == Get(nodes[k], "domain", << >>)
      firsts == {k \in 1..Len(nodes) :
                   dom(k) # << >> /\ \A j \in 1..(k - 1) : dom(j) # dom(k)}
      count(d) == Cardinality({k \in 1..Len(nodes) : dom(k) = d})
      RECURSIVE Sorted(_)
      Sorted(left) ==
        IF left = {} THEN << >>
        ELSE LET k == CHOOSE i \in left :
                        \A j \in left :
                          \/ count(dom(j)) < count(dom(i))
                          \/ count(dom(j)) = count(dom(i)) /\ i <= j
             IN  <<[domain |-> dom(k), count |-> count(dom(k))]>>
                 \o Sorted(left \ {k})
  IN  [nodes |-> Len(nodes),
       edges |-> Len(edges),
       top_domains |-> Take(Sorted(firsts), TopDomains)]

\* The original id the loop of Layer 3b over all_original_ids meets first
\* for each canonical.
FirstOf(alias_map, id_order) ==
  [c \in Canons(alias_map) |->
     id_order[CHOOSE k \in 1..Len(id_order) :
                /\ alias_map[id_order[k]] = c
                /\ \A j \in 1..(k - 1) : alias_map[id_order[j]] # c]]

(***************************************************************************)
(* The run of the program                                                  *)
(***************************************************************************)

VARIABLES
  args,           \* the command line
  files,          \* path -> << >> when there is no such file, else <<content>>
  pc,             \* the step the run is at
  nodes,          \* data["nodes"], as the set of its elements
  edges,          \* data["edges"]
  id_order,       \* the iteration order of the set all_original_ids
  alias_map,      \* original id -> canonical key
  merges,         \* the merge delta of the layer that ran last
  best_id_groups, \* dict: surviving id -> the set of ids of its group
  final_remap,    \* original id -> surviving id
  merged_nodes,
  merged_edges,
  new_stats,
  stdout,         \* the lines printed that a reader acts on
  exit_code,      \* -1 while the process runs
  run,            \* 1, or 2 when the program is run again on the same input
  first_output,   \* << >>, or <<the content the first run wrote>>
  uf,             \* a _UnionFind object that is called on its own
  frame           \* arguments and locals of a function that is called on its own

vars ==
  <<args, files, pc, nodes, edges, id_order, alias_map, merges, best_id_groups,
    final_remap, merged_nodes, merged_edges, new_stats, stdout, exit_code,
    run, first_output, uf, frame>>

io == <<args, files, run, first_output>>

input == <<nodes, edges, id_order>>

working == <<alias_map, merges>>

unit == <<uf, frame>>

grouped == <<best_id_groups, final_remap>>

merged == <<merged_nodes, merged_edges, new_stats>>

Fresh ==
  /\ pc = "main"
  /\ nodes = {}
  /\ edges = << >>
  /\ id_order = << >>
  /\ alias_map = << >>
  /\ merges = << >>
  /\ best_id_groups = << >>
  /\ final_remap = << >>
  /\ merged_nodes = << >>
  /\ merged_edges = << >>
  /\ new_stats = << >>
  /\ stdout = << >>
  /\ exit_code = -1

Init ==
  /\ args \in Args
  /\ \/ files = [p \in Paths |-> << >>]
     \/ \E g \in Contents : files = [p \in Paths |-> IF p = InputPath THEN <<g>> ELSE << >>]
  /\ run = 1
  /\ first_output = << >>
  /\ uf = UFEmpty
  /\ frame = << >>
  /\ Fresh

nodes_by_id == NodesById(nodes)

\* A faulty main: a missing input file ends the run with exit code 0.
MainExitsZero ==
  /\ pc = "main"
  /\ IF files[InputPath] = << >>
     THEN /\ pc' = "exit"
          /\ exit_code' = 0
     ELSE /\ pc' = "load"
          /\ UNCHANGED exit_code
  /\ UNCHANGED <<io, unit, input, working, grouped, merged, stdout>>

\* main: a missing input file ends the run with exit code 1.
Main ==
  /\ pc = "main"
  /\ IF files[InputPath] = << >>
     THEN /\ pc' = "exit"
          /\ exit_code' = 1
     ELSE /\ pc' = "load"
          /\ UNCHANGED exit_code
  /\ UNCHANGED <<io, unit, input, working, grouped, merged, stdout>>

\* The exceptions nothing catches before the layers run: JSONDecodeError
\* of json.load, KeyError of data["nodes"] and data["edges"], and KeyError
\* of n["id"] where build_alias_map indexes the nodes.
LoadFails(content) ==
  \/ "unparsed" \in DOMAIN content
  \/ "nodes" \notin DOMAIN content
  \/ "edges" \notin DOMAIN content
  \/ \E n \in content.nodes : "id" \notin DOMAIN n

\* run_dedup reads the file; build_alias_map starts from the identity map
\* over the set of ids, whose iteration order is fixed here.
Load ==
  /\ pc = "load"
  /\ IF LoadFails(files[InputPath][1])
     THEN /\ pc' = "exit"
          /\ exit_code' = 1
          /\ UNCHANGED <<input, alias_map>>
     ELSE /\ nodes' = files[InputPath][1].nodes
          /\ edges' = files[InputPath][1].edges
          /\ id_order' \in Perms(IdsOf(nodes'))
          /\ alias_map' = [nid \in IdsOf(nodes') |-> nid]
          /\ pc' = "layer1"
          /\ UNCHANGED exit_code
  /\ UNCHANGED <<io, unit, merges, grouped, merged, stdout>>

Layer1 ==
  /\ pc = "layer1"
  /\ alias_map' = [nid \in DOMAIN alias_map |-> structural_cleanup(nid)]
  /\ pc' = "layer2"
  /\ UNCHANGED <<io, unit, input, merges, grouped, merged, stdout, exit_code>>

Layer2 ==
  /\ pc = "layer2"
  /\ alias_map' = [nid \in DOMAIN alias_map |->
                     apply_domain_normalization(alias_map[nid])]
  /\ pc' = "layer3"
  /\ UNCHANGED <<io, unit, input, merges, grouped, merged, stdout, exit_code>>

Layer3 ==
  /\ pc = "layer3"
  /\ alias_map' = [nid \in DOMAIN alias_map |->
                     apply_local_ocr_normalization(alias_map[nid])]
  /\ pc' = "layer3b"
  /\ UNCHANGED <<io, unit, input, merges, grouped, merged, stdout, exit_code>>

Layer3b ==
  /\ pc = "layer3b"
  /\ merges' = join_split_local_matches(alias_map, FirstOf(alias_map, id_order))
  /\ alias_map' = _apply_layer_merges(alias_map, merges')
  /\ pc' = "layer3c"
  /\ UNCHANGED <<io, unit, input, grouped, merged, stdout, exit_code>>

Layer3c ==
  /\ pc = "layer3c"
  /\ \E known_order \in KnownOrders(alias_map) :
       merges' = prefix_strip_matches(alias_map, known_order)
  /\ alias_map' = _apply_layer_merges(alias_map, merges')
  /\ pc' = "layer4"
  /\ UNCHANGED <<io, unit, input, grouped, merged, stdout, exit_code>>

Layer4 ==
  /\ pc = "layer4"
  /\ merges' = fuzzy_match_groups(nodes_by_id, alias_map, args.no_fuzzy)
  /\ alias_map' = _apply_layer_merges(alias_map, merges')
  /\ pc' = "layer5"
  /\ UNCHANGED <<io, unit, input, grouped, merged, stdout, exit_code>>

Layer5 ==
  /\ pc = "layer5"
  /\ \E order \in Perms(Canons(alias_map)) :
       merges' = single_to_full_name_matches(alias_map, nodes_by_id, order)
  /\ alias_map' = _apply_layer_merges(alias_map, merges')
  /\ pc' = "layer6"
  /\ UNCHANGED <<io, unit, input, grouped, merged, stdout, exit_code>>

Layer6 ==
  /\ pc = "layer6"
  /\ merges' = concatenation_matches(alias_map, nodes_by_id)
  /\ alias_map' = _apply_layer_merges(alias_map, merges')
  /\ pc' = "layer7"
  /\ UNCHANGED <<io, unit, input, grouped, merged, stdout, exit_code>>

Layer7 ==
  /\ pc = "layer7"
  /\ \E order \in Perms(Canons(alias_map)) :
       merges' = _same_name_merge(alias_map, nodes_by_id, order)
  /\ alias_map' = _apply_layer_merges(alias_map, merges')
  /\ pc' = "group"
  /\ UNCHANGED <<io, unit, input, grouped, merged, stdout, exit_code>>

\* The end of build_alias_map: one surviving id per canonical group.
Group ==
  /\ pc = "group"
  /\ \E set_order \in SetOrders(alias_map) :
       /\ best_id_groups' =
            GroupLoop(GroupKeys(alias_map, id_order), 1, set_order,
                      BestIds(set_order, nodes_by_id), << >>)
       /\ final_remap' = FinalRemap(alias_map, BestIds(set_order, nodes_by_id))
  /\ pc' = IF args.dry_run THEN "dry_run" ELSE "merge_nodes"
  /\ UNCHANGED <<io, unit, input, working, merged, stdout, exit_code>>

\* A faulty dry run: the test of the flag comes after the backup.
DryRunAfterBackup ==
  /\ pc = "dry_run"
  /\ files' = [files EXCEPT ![BackupPath] = files[InputPath]]
  /\ stdout' = Append(stdout, "[DRY RUN] No files written.")
  /\ exit_code' = 0
  /\ pc' = "exit"
  /\ UNCHANGED <<args, run, first_output, unit, input, working, grouped, merged>>

DryRun ==
  /\ pc = "dry_run"
  /\ stdout' = Append(stdout, "[DRY RUN] No files written.")
  /\ exit_code' = 0
  /\ pc' = "exit"
  /\ UNCHANGED <<io, unit, input, working, grouped, merged>>

MergeNodes ==
  /\ pc = "merge_nodes"
  /\ merged_nodes' = merge_nodes(best_id_groups, nodes_by_id)
  /\ pc' = "merge_edges"
  /\ UNCHANGED <<io, unit, input, working, grouped, merged_edges, new_stats,
                 stdout, exit_code>>

MergeEdges ==
  /\ pc = "merge_edges"
  /\ merged_edges' = merge_edges(edges, final_remap)
  /\ new_stats' = recompute_stats(merged_nodes, merged_edges')
  /\ pc' = "checks"
  /\ UNCHANGED <<io, unit, input, working, grouped, merged_nodes, stdout, exit_code>>

orig_total_count == SumCount(IdsOf(nodes), nodes_by_id, 0)

node_ids == {merged_nodes[k].id : k \in 1..Len(merged_nodes)}

\* A faulty count: the targets are not looked at.
BadEndpointsOfSources ==
  Cardinality({k \in 1..Len(merged_edges) : merged_edges[k].source \notin node_ids})

bad_endpoints ==
  Cardinality({k \in 1..Len(merged_edges) : merged_edges[k].source \notin node_ids})
  + Cardinality({k \in 1..Len(merged_edges) : merged_edges[k].target \notin node_ids})

self_loops ==
  Cardinality({k \in 1..Len(merged_edges) :
                 merged_edges[k].source = merged_edges[k].target})

\* The invariant checks only print.
InvariantChecks ==
  /\ pc = "checks"
  /\ stdout' =
       stdout
       \o << IF SumField(merged_nodes, "count") # orig_total_count
             THEN "WARNING: Total count changed!"
             ELSE "Total count conserved",
             IF bad_endpoints # 0
             THEN "WARNING: edge endpoints reference non-existent nodes"
             ELSE "All edge endpoints valid",
             IF self_loops # 0 THEN "WARNING: self-loops found"
             ELSE "No self-loops",
             IF Cardinality(node_ids) # Len(merged_nodes)
             THEN "WARNING: Duplicate node IDs found!"
             ELSE "No duplicate node IDs" >>
  /\ pc' = "backup"
  /\ UNCHANGED <<io, unit, input, working, grouped, merged, exit_code>>

output_path == IF args.output_path = NoPath THEN InputPath ELSE args.output_path

\* A faulty backup step: the copy is left out.
BackupSkipped ==
  /\ pc = "backup"
  /\ pc' = "write"
  /\ UNCHANGED <<io, unit, input, working, grouped, merged, stdout, exit_code>>

\* shutil.copy2 of the input when the output goes over it
Backup ==
  /\ pc = "backup"
  /\ IF output_path = InputPath
     THEN /\ files' = [files EXCEPT ![BackupPath] = files[InputPath]]
          /\ stdout' = Append(stdout, "Backing up")
     ELSE UNCHANGED <<files, stdout>>
  /\ pc' = "write"
  /\ UNCHANGED <<args, run, first_output, unit, input, working, grouped, merged,
                 exit_code>>

output_data ==
  [stats |-> new_stats, nodes |-> merged_nodes, edges |-> merged_edges]

Write ==
  /\ pc = "write"
  /\ files' = [files EXCEPT ![output_path] = <<output_data>>]
  /\ stdout' = Append(stdout, "Writing")
  /\ pc' = "done"
  /\ UNCHANGED <<args, run, first_output, unit, input, working, grouped, merged,
                 exit_code>>

\* The closing report divides by len(nodes) and len(edges).
Finish ==
  /\ pc = "done"
  /\ IF nodes = {} \/ edges = << >>
     THEN /\ stdout' = stdout \o <<"Done!", "ZeroDivisionError">>
          /\ exit_code' = 1
     ELSE /\ stdout' = stdout \o <<"Done!", "Reduction">>
          /\ exit_code' = 0
  /\ pc' = "exit"
  /\ UNCHANGED <<io, unit, input, working, grouped, merged>>

\* The program is started once more with the same command line; the input
\* file still holds the same graph, for the output went to another path.
Rerun ==
  /\ pc = "exit"
  /\ run = 1
  /\ ~args.dry_run
  /\ args.output_path # NoPath
  /\ files[OutPath] # << >>
  /\ run' = 2
  /\ first_output' = files[OutPath]
  /\ pc' = "main"
  /\ nodes' = {}
  /\ edges' = << >>
  /\ id_order' = << >>
  /\ alias_map' = << >>
  /\ merges' = << >>
  /\ best_id_groups' = << >>
  /\ final_remap' = << >>
  /\ merged_nodes' = << >>
  /\ merged_edges' = << >>
  /\ new_stats' = << >>
  /\ stdout' = << >>
  /\ exit_code' = -1
  /\ UNCHANGED <<args, files, unit>>

Next ==
  \/ Main
  \/ Load
  \/ Layer1
  \/ Layer2
  \/ Layer3
  \/ Layer3b
  \/ Layer3c
  \/ Layer4
  \/ Layer5
  \/ Layer6
  \/ Layer7
  \/ Group
  \/ DryRun
  \/ MergeNodes
  \/ MergeEdges
  \/ InvariantChecks
  \/ Backup
  \/ Write
  \/ Finish
  \/ Rerun

Spec == Init /\ [][Next]_vars


(***************************************************************************)
(* Properties of the output graph                                          *)
(***************************************************************************)

\* The steps at which merged_nodes and merged_edges hold the output graph.
OutputReady == pc \in {"checks", "backup", "write", "done"}

AliasesOf(k) == SeqToSet(merged_nodes[k].aliases)

\* C1: count conservation.  When the output graph is built, the sum of
\* `count` over the output nodes equals the sum of `count` over the input
\* nodes, whose ids are pairwise distinct; this is claimed also for two
\* canonical-key groups that are cleaned to the same surviving id.
C1_CountConservation ==
  OutputReady => SumField(merged_nodes, "count") = orig_total_count

\* C2: alias partition.  The `aliases` of the output nodes are pairwise
\* disjoint and their union is the set of the input node ids.
C2_AliasPartition ==
  OutputReady =>
    /\ \A i, j \in 1..Len(merged_nodes) :
         i # j => AliasesOf(i) \cap AliasesOf(j) = {}
    /\ UNION {AliasesOf(k) : k \in 1..Len(merged_nodes)} = IdsOf(nodes)

\* C3: no two nodes of the output graph share the same id.
C3_UniqueIds ==
  OutputReady =>
    \A i, j \in 1..Len(merged_nodes) :
      merged_nodes[i].id = merged_nodes[j].id => i = j

\* C3 witness: an output of two nodes or more in which two canonical-key
\* groups were cleaned to the same surviving id.
C3_Witness ==
  /\ OutputReady
  /\ Len(merged_nodes) >= 2
  /\ Cardinality(Canons(alias_map)) > Len(merged_nodes)

\* The endpoints of all input edges are ids of input nodes.
EndpointsKnown ==
  \A k \in 1..Len(edges) :
    edges[k].source \in IdsOf(nodes) /\ edges[k].target \in IdsOf(nodes)

\* An endpoint remapped through raw_id -> surviving_id; an endpoint that is
\* no raw id has no surviving id and stays.
SurvivingId(x) == IF x \in DOMAIN final_remap THEN final_remap[x] ELSE x

\* C4: edge closure.  The endpoints of the input edges being input node
\* ids, every output edge runs between ids of output nodes and is no
\* self-loop.
C4_EdgeClosure ==
  OutputReady /\ EndpointsKnown =>
    \A k \in 1..Len(merged_edges) :
      /\ merged_edges[k].source \in node_ids
      /\ merged_edges[k].target \in node_ids
      /\ merged_edges[k].source # merged_edges[k].target

\* C4 witness: an output with an edge, made of an input in which another
\* edge became a self-loop by the merge of its endpoints.
C4_Witness ==
  /\ OutputReady
  /\ EndpointsKnown
  /\ Len(merged_edges) >= 1
  /\ \E k \in 1..Len(edges) :
       /\ edges[k].source # edges[k].target
       /\ final_remap[edges[k].source] = final_remap[edges[k].target]

\* The input edges that remap to the pair (src, tgt), in that direction.
Contributors(src, tgt) ==
  {k \in 1..Len(edges) :
     /\ SurvivingId(edges[k].source) = src
     /\ SurvivingId(edges[k].target) = tgt}

\* The sum of the weights of a set of input edges, an edge without a
\* weight weighing 1.
RECURSIVE WeightOver(_)
WeightOver(ks) ==
  IF ks = {} THEN 0
  ELSE LET k == CHOOSE x \in ks : TRUE
       IN  Get(edges[k], "weight", 1) + WeightOver(ks \ {k})

FieldUnion(ks, field) ==
  UNION {SeqToSet(Get(edges[k], field, << >>)) : k \in ks}

\* C5: edge aggregation.  Every output edge has as weight the sum of the
\* weights of the input edges that remap to its endpoints in its direction,
\* as years and doc_ids the unions of theirs; every input edge that does
\* not remap to a self-loop contributes to exactly one output edge.
C5_EdgeAggregation ==
  OutputReady =>
    /\ \A j \in 1..Len(merged_edges) :
         LET ks == Contributors(merged_edges[j].source, merged_edges[j].target)
         IN  /\ ks # {}
             /\ merged_edges[j].weight = WeightOver(ks)
             /\ SeqToSet(merged_edges[j].years) = FieldUnion(ks, "years")
             /\ SeqToSet(merged_edges[j].doc_ids) = FieldUnion(ks, "doc_ids")
    /\ \A k \in 1..Len(edges) :
         SurvivingId(edges[k].source) # SurvivingId(edges[k].target) =>
           Cardinality({j \in 1..Len(merged_edges) :
                          /\ merged_edges[j].source = SurvivingId(edges[k].source)
                          /\ merged_edges[j].target = SurvivingId(edges[k].target)})
             = 1

\* C5 witness: an output edge that aggregates two input edges of different
\* sources.
C5_Witness ==
  /\ OutputReady
  /\ \E j \in 1..Len(merged_edges) :
       \E k1, k2 \in Contributors(merged_edges[j].source, merged_edges[j].target) :
         edges[k1].source # edges[k2].source

\* C6: determinism.  The program run again on the same input writes the
\* output it wrote the first time.
C6_Determinism ==
  (run = 2 /\ pc = "done") => files[OutPath] = first_output

\* The steps between which alias_map is the working map of the layers.
SameIds == DOMAIN alias_map' = DOMAIN alias_map

\* C7: merges are never undone.  Two raw ids with one canonical key before
\* a layer have one canonical key after it, and the grouping that follows
\* the last layer gives them one surviving id.
C7_MergesKept ==
  [][/\ SameIds =>
          \A a, b \in DOMAIN alias_map :
            alias_map[a] = alias_map[b] => alias_map'[a] = alias_map'[b]
     /\ pc = "group" =>
          \A a, b \in DOMAIN alias_map :
            alias_map[a] = alias_map[b] => final_remap'[a] = final_remap'[b]]_vars

\* The canonical key of a raw id at the end of Layer 3.
Layer3Key(nid) ==
  apply_local_ocr_normalization(
    apply_domain_normalization(structural_cleanup(nid)))

\* C7 witness: after the grouping, two raw ids that Layer 3 had given one
\* key, which a later layer has merged into another, with one surviving id.
C7_Witness ==
  /\ pc \in {"dry_run", "merge_nodes"}
  /\ \E a, b \in DOMAIN alias_map :
       /\ a # b
       /\ Layer3Key(a) = Layer3Key(b)
       /\ alias_map[a] # Layer3Key(a)
       /\ alias_map[a] = alias_map[b]
       /\ final_remap[a] = final_remap[b]

\* The sum of a counter over the input nodes of the given ids, a missing
\* counter counting as 0.
RECURSIVE TotalOver(_, _)
TotalOver(ids, field) ==
  IF ids = {} THEN 0
  ELSE LET i == CHOOSE x \in ids : TRUE
       IN  Get(nodes_by_id[i], field, 0) + TotalOver(ids \ {i}, field)

IsSortedStrs(seq) ==
  \A i \in 1..(Len(seq) - 1) : StrLess(seq[i], seq[i + 1])

IsSortedInts(seq) == \A i \in 1..(Len(seq) - 1) : seq[i] < seq[i + 1]

\* C8: node merge aggregates.  Every output node has as sent, received and
\* count the sums over the input nodes its aliases list, as years the
\* sorted union of theirs, as domain_count the maximum of theirs, and as
\* aliases the sorted list of the raw ids of a group.
C8_NodeAggregates ==
  OutputReady =>
    \A k \in 1..Len(merged_nodes) :
      LET node == merged_nodes[k]
          ids == AliasesOf(k)
      IN  /\ ids # {}
          /\ \E c \in Canons(alias_map) : ids = OriginalsOf(alias_map, c)
          /\ IsSortedStrs(node.aliases)
          /\ node.sent = TotalOver(ids, "sent")
          /\ node.received = TotalOver(ids, "received")
          /\ node.count = TotalOver(ids, "count")
          /\ IsSortedInts(node.years)
          /\ SeqToSet(node.years)
               = UNION {SeqToSet(Get(nodes_by_id[i], "years", << >>)) : i \in ids}
          /\ \A i \in ids : Get(nodes_by_id[i], "domain_count", 0) <= node.domain_count
          /\ \E i \in ids : Get(nodes_by_id[i], "domain_count", 0) = node.domain_count

\* C8 witness: an output node of two aliases or more, one of them an input
\* node without the counter `sent`.
C8_Witness ==
  /\ OutputReady
  /\ \E k \in 1..Len(merged_nodes) :
       /\ Cardinality(AliasesOf(k)) >= 2
       /\ \E i \in AliasesOf(k) : "sent" \notin DOMAIN nodes_by_id[i]

\* The input nodes of an output node's group that no node of the group
\* beats on the canonical-selection score.
ChosenOf(k) ==
  LET members == {nodes_by_id[i] : i \in AliasesOf(k)}
  IN  {m \in members :
         \A o \in members : ~TupleLess(CanonicalScore(m), CanonicalScore(o))}

\* C9: the domain of every output node is normalize_domain of the domain
\* of the chosen node, a member of its group of the highest
\* canonical-selection score, also when the cleaned surviving id is not an
\* input id.
C9_ChosenDomain ==
  OutputReady =>
    \A k \in 1..Len(merged_nodes) :
      \E m \in ChosenOf(k) :
        merged_nodes[k].domain = normalize_domain(Get(m, "domain", << >>))

\* C10: with --dry-run no step of the run changes a file: neither the
\* output nor a backup is created or modified.
C10_DryRunWritesNothing == [][args.dry_run => files' = files]_vars

\* C10 witness: a dry run that has computed the groups of a graph of two
\* nodes or more, reported, and ended.
C10_Witness ==
  /\ args.dry_run
  /\ pc = "exit"
  /\ exit_code = 0
  /\ Cardinality(nodes) >= 2
  /\ best_id_groups # << >>
  /\ stdout # << >>

(***************************************************************************)
(* Properties of the run: files, exit codes, reports                       *)
(***************************************************************************)

\* C11: backup before overwrite.  Without --output the write step puts the
\* output over the input file, and at that step the backup path already
\* holds a copy of the input; the input file changes at no other step, so
\* with --output it is never modified.
C11_BackupBeforeOverwrite ==
  [][/\ pc = "write" /\ args.output_path = NoPath =>
          /\ files'[InputPath] = <<output_data>>
          /\ files[BackupPath] = files[InputPath]
     /\ files'[InputPath] # files[InputPath] =>
          /\ args.output_path = NoPath
          /\ files[BackupPath] = files[InputPath]]_vars

\* C11 witness: a run without --output has written; the input file holds
\* the output graph and the backup holds the graph that was read.
C11_Witness ==
  /\ pc = "done"
  /\ args.output_path = NoPath
  /\ files[InputPath] = <<output_data>>
  /\ files[BackupPath] # << >>
  /\ files[BackupPath][1].nodes = nodes
  /\ files[BackupPath] # files[InputPath]

\* The input file is missing, is no JSON, or lacks one of its two arrays.
FatalInput ==
  \/ files[InputPath] = << >>
  \/ "unparsed" \in DOMAIN files[InputPath][1]
  \/ "nodes" \notin DOMAIN files[InputPath][1]
  \/ "edges" \notin DOMAIN files[InputPath][1]

\* The run has executed its last statement.
Successful ==
  /\ pc = "exit"
  /\ stdout # << >>
  /\ stdout[Len(stdout)] \in {"Reduction", "[DRY RUN] No files written."}

\* C12: fatal input errors.  On a missing or malformed input file, or one
\* without `nodes` or `edges`, no output and no backup file is ever written
\* and the run ends with a non-zero exit code; the code is 1 for a missing
\* input file, and 0 for a run that was successful.
C12_FatalInput ==
  /\ FatalInput =>
       /\ files[OutPath] = << >>
       /\ files[BackupPath] = << >>
       /\ pc = "exit" => exit_code > 0
  /\ pc = "exit" /\ files[InputPath] = << >> => exit_code = 1
  /\ Successful => exit_code = 0

\* C12 witness: the run on a file that is no JSON has ended.
C12_Witness ==
  /\ pc = "exit"
  /\ files[InputPath] = <<Malformed>>
  /\ exit_code = 1

\* The invariant-check block has been printed.
ChecksPrinted ==
  \E k \in 1..Len(stdout) :
    stdout[k] \in {"Total count conserved", "WARNING: Total count changed!"}

\* C13: invariant failures are reported after writing.  A run that is no
\* dry run and has built its output writes it whatever the checks find,
\* and whenever the invariant-check block has been printed the output file
\* holds the output graph: the block comes after the write, which is never
\* undone.
C13_ChecksAfterWrite ==
  /\ pc = "done" => files[output_path] = <<output_data>>
  /\ ChecksPrinted => files[output_path] = <<output_data>>

\* The step that follows each layer.
LayerOrder ==
  [layer1 |-> "layer2", layer2 |-> "layer3", layer3 |-> "layer3b",
   layer3b |-> "layer3c", layer3c |-> "layer4", layer4 |-> "layer5",
   layer5 |-> "layer6", layer6 |-> "layer7", layer7 |-> "group"]

\* C14: --no-fuzzy disables Layer 4 only.  With no_fuzzy the step of
\* Layer 4 yields the empty delta and leaves the working map as it is;
\* every layer is followed by the next one of the fixed order, whatever
\* the flag is.
C14_NoFuzzyOnlyLayer4 ==
  [][/\ pc = "layer4" /\ args.no_fuzzy =>
          /\ merges' = << >>
          /\ alias_map' = alias_map
     /\ pc \in DOMAIN LayerOrder => pc' = LayerOrder[pc]]_vars

\* C14 witness: in a run with --no-fuzzy, Layer 4 is past and Layer 6 has
\* merged two keys.
C14_Witness ==
  /\ args.no_fuzzy
  /\ pc = "layer7"
  /\ merges # << >>
  /\ \E a, b \in DOMAIN alias_map : a # b /\ alias_map[a] = alias_map[b]

\* The raw ids whose Layer 1 result has no '@'.
NoAtIds == {i \in DOMAIN alias_map : ~HasAt(structural_cleanup(i))}

\* The destinations of the delta of the layer that ran last.
MergeTargets == {merges[c] : c \in DOMAIN merges}

\* C15: keys without '@' are left alone.  After Layer 1 and from then on,
\* through Layer 7 and after it, the key of every raw id whose Layer 1
\* result has no '@' is that result, and it is neither a source nor a
\* destination of a merge delta.
C15_NoAtUntouched ==
  pc # "layer1" =>
    \A i \in NoAtIds :
      /\ alias_map[i] = structural_cleanup(i)
      /\ alias_map[i] \notin DOMAIN merges
      /\ alias_map[i] \notin MergeTargets

\* C15 witness: Layer 7 is past, a raw id without '@' is in the map, which
\* Layer 3 would have reordered had it an '@', and other ids were merged.
C15_Witness ==
  /\ pc = "group"
  /\ \E i \in NoAtIds : canonicalize_local(alias_map[i]) # alias_map[i]
  /\ \E a, b \in DOMAIN alias_map : a # b /\ alias_map[a] = alias_map[b]

\* The file is an input graph with a node that has no `id`.
NodeWithoutId(content) ==
  /\ DOMAIN content = {"nodes", "edges"}
  /\ \E n \in content.nodes : "id" \notin DOMAIN n

\* C16: a node without `id` is recoverable.  The run on an input with such
\* a node ends without a fatal error, and when it is no dry run the node
\* is among the output nodes as it was in the input.
C16_NodeWithoutIdFlows ==
  pc = "exit" /\ files[InputPath] # << >> /\ NodeWithoutId(files[InputPath][1]) =>
    /\ exit_code = 0
    /\ ~args.dry_run =>
         \A n \in files[InputPath][1].nodes :
           "id" \notin DOMAIN n => \E k \in 1..Len(merged_nodes) : merged_nodes[k] = n

\* An endpoint that is the id of no input node.
Dangling(x) == x \notin IdsOf(nodes)

\* The input edge k is in the output with its endpoints remapped, an
\* endpoint without surviving id being left as it is.
Retained(k) ==
  \E j \in 1..Len(merged_edges) :
    /\ merged_edges[j].source = SurvivingId(edges[k].source)
    /\ merged_edges[j].target = SurvivingId(edges[k].target)

\* The invariant-check block is printed and reports a missing endpoint.
EndpointWarned ==
  pc # "checks" =>
    \E n \in 1..Len(stdout) :
      stdout[n] = "WARNING: edge endpoints reference non-existent nodes"

C18_EpaVariantsKept ==
  /\ normalize_domain(IEPA_GOV) = IEPA_GOV
  /\ normalize_domain(CALEPA_CA_GOV) = CALEPA_CA_GOV
  /\ OutputReady =>
       \A i \in IdsOf(nodes) :
         DomainOf(i) \in {IEPA_GOV, CALEPA_CA_GOV} =>
           DomainOf(final_remap[i]) = DomainOf(i)

\* The tokens of a local part, as a sorted list.
TokensOf(local) == SortStrs(CleanParts(local))

\* C19: Layer 3 is order-insensitive.  When Layer 3 has run, two raw
\* addresses of one domain whose locals have the same tokens, of whatever
\* length, in another order have the same canonical key.
C19_OrderInsensitive ==
  pc = "layer3b" =>
    \A i, j \in DOMAIN alias_map :
      /\ HasAt(i) /\ HasAt(j)
      /\ DomainOf(i) = DomainOf(j)
      /\ TokensOf(LocalOf(i)) = TokensOf(LocalOf(j))
      => alias_map[i] = alias_map[j]

(***************************************************************************)
(* _apply_layer_merges on arbitrary deltas                                 *)
(***************************************************************************)

\* The number of canonical keys a delta is drawn over.
MaxKeys == 4

KeyNames == <<"a", "b", "c", "d", "e", "f">>

Keys == {<<KeyNames[k]>> : k \in 1..MaxKeys}

\* The deltas over the keys: every partial function, chains and cycles
\* included.
Deltas == UNION {[srcs -> Keys] : srcs \in SUBSET Keys}

\* A raw id that is no key.
ExtraId == <<"r">>

\* The working maps: every key is its own raw id, as after Layer 1, and one
\* more raw id has one of the keys.
WorkingMaps ==
  {[r \in Keys \cup {ExtraId} |-> IF r = ExtraId THEN k ELSE r] : k \in Keys}

ApplyInit ==
  /\ pc = "apply"
  /\ args = [output_path |-> NoPath, dry_run |-> TRUE, no_fuzzy |-> FALSE]
  /\ files = [p \in Paths |-> << >>]
  /\ run = 1
  /\ first_output = << >>
  /\ nodes = {}
  /\ edges = << >>
  /\ id_order = << >>
  /\ alias_map \in WorkingMaps
  /\ merges \in Deltas
  /\ best_id_groups = << >>
  /\ final_remap = << >>
  /\ merged_nodes = << >>
  /\ merged_edges = << >>
  /\ new_stats = << >>
  /\ stdout = << >>
  /\ exit_code = -1
  /\ uf = UFEmpty
  /\ frame = << >>

\* One call of _apply_layer_merges.
ApplyDelta ==
  /\ pc = "apply"
  /\ alias_map' = _apply_layer_merges(alias_map, merges)
  /\ pc' = "applied"
  /\ UNCHANGED <<io, unit, input, merges, grouped, merged, stdout, exit_code>>

ApplySpec == ApplyInit /\ [][ApplyDelta]_vars

\* The key n steps of the delta after k, or the key at which the steps end.
RECURSIVE Follow(_, _, _)
Follow(delta, k, n) ==
  IF n = 0 \/ k \notin DOMAIN delta THEN k
  ELSE Follow(delta, delta[k], n - 1)

\* The end of the chain of k in a delta without cycles.
ChainEnd(delta, k) == Follow(delta, k, Cardinality(DOMAIN delta))

\* No chain of the delta comes back to a source: every chain leaves the
\* sources within as many steps as there are sources.
Acyclic(delta) == \A k \in DOMAIN delta : ChainEnd(delta, k) \notin DOMAIN delta

\* C20: chain resolution.  When a delta without cycles is applied, every
\* raw id whose key is a source gets the key at the end of its chain, no
\* value of the map is a source afterwards, and every other raw id keeps
\* its key.
C20_ChainResolution ==
  [][pc = "apply" /\ Acyclic(merges) =>
       \A r \in DOMAIN alias_map :
         /\ alias_map[r] \in DOMAIN merges =>
              alias_map'[r] = ChainEnd(merges, alias_map[r])
         /\ alias_map[r] \notin DOMAIN merges => alias_map'[r] = alias_map[r]
         /\ alias_map'[r] \notin DOMAIN merges]_vars

\* C20 witness: a delta without cycles that holds a chain a -> b -> c has
\* been applied, and the raw id a has the key c.
C20_Witness ==
  /\ pc = "applied"
  /\ Acyclic(merges)
  /\ \E a \in DOMAIN merges :
       /\ merges[a] \in DOMAIN merges
       /\ alias_map[a] = merges[merges[a]]
       /\ alias_map[a] \notin DOMAIN merges
       /\ alias_map[ExtraId] \notin DOMAIN merges

(***************************************************************************)
(* The chain-resolution loop of _apply_layer_merges, step by step          *)
(***************************************************************************)

\* The variables of the run of the program, which a function called on its
\* own leaves alone.
program == <<io, input, grouped, merged, stdout, exit_code>>

\* No run of the program is under way.
RunIdle ==
  /\ args = [output_path |-> NoPath, dry_run |-> TRUE, no_fuzzy |-> FALSE]
  /\ files = [p \in Paths |-> << >>]
  /\ run = 1
  /\ first_output = << >>
  /\ nodes = {}
  /\ edges = << >>
  /\ id_order = << >>
  /\ best_id_groups = << >>
  /\ final_remap = << >>
  /\ merged_nodes = << >>
  /\ merged_edges = << >>
  /\ new_stats = << >>
  /\ stdout = << >>
  /\ exit_code = -1

ResolveInit ==
  /\ RunIdle
  /\ pc = "enter"
  /\ alias_map \in WorkingMaps
  /\ merges \in Deltas
  /\ uf = UFEmpty
  /\ frame = << >>

\* if not merges: return changes
EarlyReturn ==
  /\ pc = "enter"
  /\ DOMAIN merges = {}
  /\ pc' = "applied"
  /\ UNCHANGED <<program, working, unit>>

\* resolved = {}
StartResolve ==
  /\ pc = "enter"
  /\ DOMAIN merges # {}
  /\ frame' = [todo |-> DOMAIN merges, resolved |-> << >>]
  /\ pc' = "for_src"
  /\ UNCHANGED <<program, working, uf>>

\* for src in merges: dst = merges[src]; seen = {src}
PickSrc ==
  /\ pc = "for_src"
  /\ \E src \in frame.todo :
       frame' = [todo |-> frame.todo \ {src},
                 resolved |-> frame.resolved,
                 src |-> src,
                 dst |-> merges[src],
                 seen |-> {src}]
  /\ pc' = "while"
  /\ UNCHANGED <<program, working, uf>>

\* A faulty loop condition: a key met before does not stop the walk.
WalkContinuesUnguarded(delta, dst, seen) == dst \in DOMAIN delta

\* while dst in merges and dst not in seen
WalkContinues(delta, dst, seen) == dst \in DOMAIN delta /\ dst \notin seen

\* seen.add(dst); dst = merges[dst]
WhileStep ==
  /\ pc = "while"
  /\ WalkContinues(merges, frame.dst, frame.seen)
  /\ frame' = [frame EXCEPT !.seen = @ \cup {frame.dst},
                            !.dst = merges[frame.dst]]
  /\ UNCHANGED <<program, working, uf, pc>>

\* resolved[src] = dst
WhileExit ==
  /\ pc = "while"
  /\ ~WalkContinues(merges, frame.dst, frame.seen)
  /\ frame' = [todo |-> frame.todo,
               resolved |-> frame.resolved @@ (frame.src :> frame.dst)]
  /\ pc' = "for_src"
  /\ UNCHANGED <<program, working, uf>>

\* The second loop: every original whose canonical is resolved is
\* re-pointed.
ApplyResolved ==
  /\ pc = "for_src"
  /\ frame.todo = {}
  /\ alias_map' =
       [orig_id \in DOMAIN alias_map |->
          IF alias_map[orig_id] \in DOMAIN frame.resolved
          THEN frame.resolved[alias_map[orig_id]]
          ELSE alias_map[orig_id]]
  /\ pc' = "applied"
  /\ UNCHANGED <<program, merges, unit>>

ResolveNext ==
  \/ EarlyReturn
  \/ StartResolve
  \/ PickSrc
  \/ WhileStep
  \/ WhileExit
  \/ ApplyResolved

ResolveSpec == ResolveInit /\ [][ResolveNext]_vars

\* The interpreter goes on executing the function it has entered.
ResolveLive == ResolveSpec /\ WF_vars(ResolveNext)

\* The loop, step by step, computes what _apply_layer_merges is.
ResolveAgrees ==
  [][pc = "for_src" /\ pc' = "applied" =>
       alias_map' = _apply_layer_merges(alias_map, merges)]_vars

\* C21: cycle guarding.  The call of _apply_layer_merges returns for every
\* delta over the keys, those with a cycle or with a chain into a cycle
\* included: the walk along a chain stops at the first key it meets again.
C21_Terminates == <>(pc = "applied")

\* C21 witness: the call has returned for a delta in which two keys point
\* at each other and a third key points into that cycle.
C21_Witness ==
  /\ pc = "applied"
  /\ \E a, b, c \in DOMAIN merges :
       /\ a # b /\ c # a /\ c # b
       /\ merges[a] = b
       /\ merges[b] = a
       /\ merges[c] = a

\* C22: a delta entry is honoured.  For every entry src -> dst of the delta
\* that is applied, with or without cycles, the raw ids that had the key
\* src and those that had the key dst have one key afterwards.
C22_EntryHonoured ==
  [][pc = "apply" =>
       \A src \in DOMAIN merges :
         \A r1, r2 \in DOMAIN alias_map :
           alias_map[r1] = src /\ alias_map[r2] = merges[src] =>
             alias_map'[r1] = alias_map'[r2]]_vars

\* C22 amended: an entry of a delta without cycles is honoured.  For every
\* entry src -> dst of such a delta, the raw ids that had the key src and
\* those that had the key dst have one key after the application.
C22_HonouredAcyclic ==
  [][pc = "apply" /\ Acyclic(merges) =>
       \A src \in DOMAIN merges :
         \A r1, r2 \in DOMAIN alias_map :
           alias_map[r1] = src /\ alias_map[r2] = merges[src] =>
             alias_map'[r1] = alias_map'[r2]]_vars

\* C22 witness: a delta without cycles has been applied, and the raw id
\* that had the key src has the key of the raw id dst, which is not src.
C22_Witness ==
  /\ pc = "applied"
  /\ Acyclic(merges)
  /\ \E src \in DOMAIN merges :
       /\ merges[src] # src
       /\ alias_map[src] = alias_map[merges[src]]
       /\ alias_map[src] # src

(***************************************************************************)
(* _UnionFind called on its own                                            *)
(***************************************************************************)

MaxElems == 4
MaxWeight == 1

\* The elements and the counts the calls are made with.
UFElems == 1..MaxElems
UFWeights == 0..MaxWeight

\* What a call returned: whether it raised KeyError, the root find returned
\* (0 for no root) and the dict groups returned (empty for no dict).
Returned(error, root, groups) ==
  [error |-> error, root |-> root, groups |-> groups]
ReturnedNone == Returned(FALSE, 0, << >>)
KeyError == Returned(TRUE, 0, << >>)

\* `frame` holds the count each element was first added with and what the
\* last call returned.
UFInit ==
  /\ RunIdle
  /\ pc = "uf"
  /\ alias_map = << >>
  /\ merges = << >>
  /\ uf = UFEmpty
  /\ frame = [added |-> << >>, ret |-> ReturnedNone]

\* uf.add(x, count)
UFAddCall(x, count) ==
  /\ pc = "uf"
  /\ uf' = UFAdd(uf, x, count)
  /\ frame' = [added |-> IF x \in DOMAIN frame.added THEN frame.added
                         ELSE frame.added @@ (x :> count),
               ret |-> ReturnedNone]
  /\ UNCHANGED <<program, working, pc>>

\* uf.find(x); an element that was never added raises KeyError
UFFindCall(x) ==
  /\ pc = "uf"
  /\ IF x \in DOMAIN uf.parent
     THEN /\ uf' = UFFind(uf, x)
          /\ frame' = [frame EXCEPT !.ret = Returned(FALSE, UFRoot(uf, x), << >>)]
     ELSE /\ uf' = uf
          /\ frame' = [frame EXCEPT !.ret = KeyError]
  /\ UNCHANGED <<program, working, pc>>

\* uf.union(a, b); find(a) is done before find(b) raises
UFUnionCall(a, b) ==
  /\ pc = "uf"
  /\ IF a \in DOMAIN uf.parent /\ b \in DOMAIN uf.parent
     THEN /\ uf' = UFUnion(uf, a, b)
          /\ frame' = [frame EXCEPT !.ret = ReturnedNone]
     ELSE /\ uf' = IF a \in DOMAIN uf.parent THEN UFFind(uf, a) ELSE uf
          /\ frame' = [frame EXCEPT !.ret = KeyError]
  /\ UNCHANGED <<program, working, pc>>

\* The structure after find(x) for every x of the list xs.
RECURSIVE UFFindAll(_, _)
UFFindAll(u, xs) ==
  IF xs = {} THEN u
  ELSE LET x == CHOOSE y \in xs : TRUE
       IN  UFFindAll(UFFind(u, x), xs \ {x})

\* uf.groups()
UFGroupsCall ==
  /\ pc = "uf"
  /\ uf' = UFFindAll(uf, DOMAIN uf.parent)
  /\ frame' = [frame EXCEPT !.ret = Returned(FALSE, 0, UFGroups(uf))]
  /\ UNCHANGED <<program, working, pc>>

UFNext ==
  \/ \E x \in UFElems : \E count \in UFWeights : UFAddCall(x, count)
  \/ \E x \in UFElems : UFFindCall(x)
  \/ \E a, b \in UFElems : UFUnionCall(a, b)
  \/ UFGroupsCall

UFSpec == UFInit /\ [][UFNext]_vars

\* The element reached from x by following parent pointers k times.
RECURSIVE ParentIter(_, _, _)
ParentIter(u, x, k) == IF k = 0 THEN x ELSE ParentIter(u, u.parent[x], k - 1)

\* The parent pointers form a forest: from every element a root is reached.
Forest(u) ==
  \A x \in DOMAIN u.parent :
    LET top == ParentIter(u, x, Cardinality(DOMAIN u.parent))
    IN  u.parent[top] = top

\* The roots and the sets of a forest, computed without find.
RootOf(u, x) == ParentIter(u, x, Cardinality(DOMAIN u.parent))
SetOf(u, x) == {y \in DOMAIN u.parent : RootOf(u, y) = RootOf(u, x)}
Sets(u) == {SetOf(u, x) : x \in DOMAIN u.parent}
Roots(u) == {x \in DOMAIN u.parent : u.parent[x] = x}

\* C23: after any sequence of add and union calls, a root that stops being
\* a root is attached under a root whose rank is not lower, and the weight
\* stored at the root of each set is the maximum of the counts its members
\* were added with.
C23_RootWeight ==
  [][/\ \A x \in Roots(uf) :
          x \in DOMAIN uf'.parent /\ uf'.parent[x] # x =>
            /\ uf'.parent[x] \in Roots(uf)
            /\ uf.rank[uf'.parent[x]] >= uf.rank[x]
     /\ \A r \in Roots(uf') :
          uf'.weight[r] = MaxOf({frame'.added[m] : m \in SetOf(uf', r)}, 0)]_vars

\* C23 witness: a set of three whose root has rank 1 and was added with a
\* lower count than its two members of rank 0, whose count it now stores.
C23_Witness ==
  \E r \in Roots(uf) :
    /\ Cardinality(SetOf(uf, r)) = 3
    /\ uf.rank[r] = 1
    /\ frame.added[r] < uf.weight[r]
    /\ \A m \in SetOf(uf, r) \ {r} : frame.added[m] > frame.added[r]

\* C24: after any interleaving of add, find, union and groups calls the
\* parent pointers form a forest; find(x) returns the root of x's tree and
\* keeps the sets; union(a, b) joins exactly the sets of a and b; groups()
\* returns a partition of the added elements keyed by the root of each set.
C24_Structure ==
  [][/\ Forest(uf')
     /\ \A x \in DOMAIN uf.parent :
          UFFindCall(x) =>
            /\ frame'.ret.root = RootOf(uf, x)
            /\ RootOf(uf', x) = RootOf(uf, x)
            /\ Sets(uf') = Sets(uf)
     /\ \A a, b \in DOMAIN uf.parent :
          UFUnionCall(a, b) =>
            Sets(uf') = (Sets(uf) \ {SetOf(uf, a), SetOf(uf, b)})
                          \cup {SetOf(uf, a) \cup SetOf(uf, b)}
     /\ UFGroupsCall =>
          /\ DOMAIN frame'.ret.groups = Roots(uf)
          /\ \A r \in Roots(uf) : frame'.ret.groups[r] = SetOf(uf, r)
          /\ UNION {frame'.ret.groups[r] : r \in DOMAIN frame'.ret.groups} = DOMAIN uf.parent
          /\ \A r1, r2 \in DOMAIN frame'.ret.groups :
               r1 # r2 => frame'.ret.groups[r1] \cap frame'.ret.groups[r2] = {}
          /\ Sets(uf') = Sets(uf)]_vars

\* C24 witness: a tree of depth two has been compressed by find: four
\* elements are in one set, the root has rank 2, every other element points
\* at the root, and the last call returned the root.
C24_Witness ==
  \E r \in Roots(uf) :
    /\ SetOf(uf, r) = UFElems
    /\ uf.rank[r] = 2
    /\ \A x \in UFElems : uf.parent[x] = r
    /\ frame.ret.root = r

(***************************************************************************)
(* The representatives of Layer 4 and Layer 7                              *)
(***************************************************************************)

\* The union-find of Layer 4 for the working map of the current state.
FuzzyUF ==
  FuzzyDomains(UFEmpty, SortedOfSet(DomainsOf(alias_map)), alias_map,
               nodes_by_id)

\* Member b of a group is ahead of every other member: its total count is
\* higher, or equal with a key that comes later in lexicographic order.
Leads(b, group, counts) ==
  \A m \in group \ {b} :
    counts[m] < counts[b] \/ (counts[m] = counts[b] /\ StrLess(m, b))

\* C25: for every union-find group of two or more canonicals formed by
\* Layer 4, the delta maps every other member directly to one
\* representative, the member with the highest total count, ties broken by
\* lexicographic order of the key (the later key wins); the representative
\* is no source of the delta.
C25_FuzzyRepresentative ==
  [][pc = "layer4" /\ ~args.no_fuzzy =>
       /\ DOMAIN merges' \subseteq UNION BigGroups(FuzzyUF)
       /\ \A group \in BigGroups(FuzzyUF) :
            \E rep \in group :
              /\ Leads(rep, group, CountTable(alias_map, nodes_by_id))
              /\ rep \notin DOMAIN merges'
              /\ \A m \in group \ {rep} :
                   m \in DOMAIN merges' /\ merges'[m] = rep]_vars

\* C25 witness: Layer 4 has merged two nodes of equal count, the one with
\* the earlier key into the one with the later key.
C25_Witness ==
  /\ pc = "layer5"
  /\ \E n1, n2 \in nodes :
       /\ "id" \in DOMAIN n1 /\ "id" \in DOMAIN n2
       /\ nodes = {n1, n2}
       /\ n1.count = n2.count
       /\ StrLess(n1.id, n2.id)
       /\ DOMAIN merges = {n1.id}
       /\ merges[n1.id] = n2.id
       /\ alias_map[n1.id] = n2.id

\* Some canonical-key group appears in the alias lists of no output node.
AliasesIncomplete ==
  UNION {AliasesOf(k) : k \in 1..Len(merged_nodes)} # IdsOf(nodes)

Warned ==
  \E k \in 1..Len(stdout) :
    stdout[k] \in {"WARNING: Total count changed!",
                   "WARNING: edge endpoints reference non-existent nodes",
                   "WARNING: self-loops found",
                   "WARNING: Duplicate node IDs found!"}

\* C30: loss is always detected.  In every run that is no dry run and in
\* which the alias lists of the output nodes do not cover all input node
\* ids, the invariant-check block prints at least one WARNING line.
C30_LossDetected ==
  ChecksPrinted /\ AliasesIncomplete => Warned

(***************************************************************************)
(* The merge rule of Layer 5                                               *)
(***************************************************************************)

\* The multi-token canonicals of the domain of `single` whose tokens hold
\* its local part.
CandidatesOf(single) ==
  {c \in Canons(alias_map) :
     /\ HasAt(c)
     /\ DomainOf(c) = DomainOf(single)
     /\ ~IsSingle(c)
     /\ LocalOf(single) \in SeqToSet(NameParts(LocalOf(c)))}

Singles == {c \in Canons(alias_map) : HasAt(c) /\ IsSingle(c)}

\* Candidate `top` has at least 5 times the count of every other one.
FiveTimes(top, cands, counts) ==
  \A other \in cands \ {top} : counts[top] >= 5 * counts[other]

\* C28 as stated: a single-token canonical is merged into a multi-token
\* canonical of its domain whose tokens hold it if and only if there is
\* exactly one such candidate, or the candidate with the highest count has
\* at least 5 times the count of the runner-up, counts of zero included;
\* the destination is the highest-count candidate, and no multi-token
\* canonical is a source of the delta.
C28_FiveTimesRule ==
  [][pc = "layer5" =>
       LET counts == CountTable(alias_map, nodes_by_id)
       IN  /\ DOMAIN merges' \subseteq Singles
           /\ \A single \in Singles :
                LET cands == CandidatesOf(single)
                IN  /\ single \in DOMAIN merges' <=>
                         \/ Cardinality(cands) = 1
                         \/ /\ Cardinality(cands) >= 2
                            /\ \E top \in cands : FiveTimes(top, cands, counts)
                    /\ single \in DOMAIN merges' =>
                         /\ merges'[single] \in cands
                         /\ \A c \in cands :
                              counts[c] <= counts[merges'[single]]]_vars

\* C28 amended: of several candidates the one with the highest count is
\* taken only when that count is positive and at least 5 times the count
\* of the runner-up.
C28_PositiveFiveTimes ==
  [][pc = "layer5" =>
       LET counts == CountTable(alias_map, nodes_by_id)
       IN  /\ DOMAIN merges' \subseteq Singles
           /\ \A single \in Singles :
                LET cands == CandidatesOf(single)
                IN  /\ single \in DOMAIN merges' <=>
                         \/ Cardinality(cands) = 1
                         \/ /\ Cardinality(cands) >= 2
                            /\ \E top \in cands :
                                 /\ counts[top] > 0
                                 /\ FiveTimes(top, cands, counts)
                    /\ single \in DOMAIN merges' =>
                         /\ merges'[single] \in cands
                         /\ \A c \in cands :
                              counts[c] <= counts[merges'[single]]]_vars

\* C28 witness: Layer 5 has merged a last name into the full name that has
\* exactly 5 times the count of the other full name that holds it.
C28_Witness ==
  /\ pc = "layer6"
  /\ Cardinality(nodes) = 3
  /\ \E single \in DOMAIN merges :
       \E top, other \in nodes :
         /\ top.id = merges[single]
         /\ other.id # top.id
         /\ other.id # single
         /\ other.count >= 1
         /\ top.count = 5 * other.count

(***************************************************************************)
(* The representative of Layer 7 and the iteration order of sets           *)
(***************************************************************************)

\* The canonicals Layer 7 joined to others: the sources and the
\* destinations of its delta.
Joined(delta) == DOMAIN delta \cup {delta[src] : src \in DOMAIN delta}

\* The key that the raw ids of canonical c have in the working map `after`.
FinalOf(c, before, after) ==
  after[CHOOSE orig_id \in DOMAIN before : before[orig_id] = c]

\* The canonicals that end under the same key as c.
FinalGroup(c, before, after) ==
  {k \in Canons(before) : FinalOf(k, before, after) = FinalOf(c, before, after)}

\* C26: after Layer 7 is applied, every raw id whose canonical was joined
\* to others by any of the strategies maps to the highest-count canonical
\* of its whole final group, ties broken by lexicographic order of the key
\* (the later key wins, as in the final conversion of the layer).
C26_SameNameRepresentative ==
  [][pc = "layer7" =>
       \A c \in Joined(merges') :
         /\ FinalOf(c, alias_map, alias_map') \in
              FinalGroup(c, alias_map, alias_map')
         /\ Leads(FinalOf(c, alias_map, alias_map'),
                  FinalGroup(c, alias_map, alias_map'),
                  CountTable(alias_map, nodes_by_id))]_vars

\* The order of the known tokens of every domain that sorting gives.
SortedKnown(working_map) ==
  [d \in DomainsOf(working_map) |->
     SortedOfSet(ScannedParts(working_map, d))]

\* C27: within every layer the delta does not depend on the iteration
\* order of sets: the known-token scan of Layer 3c, the top candidate of
\* Layer 5 and the best entry of Strategy 1 of Layer 7 give the delta that
\* the sorted order gives.
C27_OrderIndependent ==
  [][/\ pc = "layer3c" =>
          merges' = prefix_strip_matches(alias_map, SortedKnown(alias_map))
     /\ pc = "layer5" =>
          merges' = single_to_full_name_matches(
                      alias_map, nodes_by_id, SortedOfSet(Canons(alias_map)))
     /\ pc = "layer7" =>
          merges' = _same_name_merge(
                      alias_map, nodes_by_id, SortedOfSet(Canons(alias_map)))]_vars

(***************************************************************************)
(* levenshtein called on its own                                           *)
(***************************************************************************)

MaxLen == 3

Alphabet == {"a", "b", "c"}

\* The strings of at most MaxLen characters.
LevStrings == UNION {[1..n -> Alphabet] : n \in 0..MaxLen}

\* `frame` holds the arguments of the call and, after it, what it returned.
LevInit ==
  /\ RunIdle
  /\ pc = "levenshtein"
  /\ alias_map = << >>
  /\ merges = << >>
  /\ uf = UFEmpty
  /\ frame \in [s : LevStrings, t : LevStrings]

LevCall ==
  /\ pc = "levenshtein"
  /\ frame' = [s |-> frame.s, t |-> frame.t,
               ret |-> levenshtein(frame.s, frame.t)]
  /\ pc' = "returned"
  /\ UNCHANGED <<program, working, uf>>

LevNext == LevCall

LevSpec == LevInit /\ [][LevNext]_vars

\* The unit-cost edit distance of the first i characters of s and the
\* first j characters of t, by the standard recurrence.
RECURSIVE EditDistance(_, _, _, _)
EditDistance(s, t, i, j) ==
  IF i = 0 THEN j
  ELSE IF j = 0 THEN i
  ELSE Min2(Min2(EditDistance(s, t, i - 1, j) + 1,
                 EditDistance(s, t, i, j - 1) + 1),
            EditDistance(s, t, i - 1, j - 1)
              + (IF s[i] = t[j] THEN 0 ELSE 1))

\* C29: levenshtein returns for all strings s and t the unit-cost edit
\* distance of the standard recurrence, also through its early exits for
\* equal strings and empty inputs; it is symmetric and returns 0 exactly
\* when s = t.
C29_EditDistance ==
  pc = "returned" =>
    /\ frame.ret = EditDistance(frame.s, frame.t, Len(frame.s), Len(frame.t))
    /\ frame.ret = levenshtein(frame.t, frame.s)
    /\ frame.ret = 0 <=> frame.s = frame.t

\* C29 witness: the two rows were run for strings of different lengths,
\* neither of them empty, at distance 2.
C29_Witness ==
  /\ pc = "returned"
  /\ Len(frame.s) = MaxLen
  /\ Len(frame.t) = MaxLen - 1
  /\ frame.ret = 2
====
